---- MODULE Spec2Model ----
(***************************************************************************)
(* Kanban GraphQL API: the resolvers of src/src/graphql/resolvers/index.ts *)
(* and the guards of src/auth/guards.ts over the Prisma store of           *)
(* prisma/migrations/20260105180000_init/migration.sql.                    *)
(*                                                                         *)
(* Ids are integers handed out in creation order (the store's ids are      *)
(* opaque unique strings); 0 stands for null.  Text is a sequence of       *)
(* one-character strings so that trim() and toLowerCase() are computed.    *)
(***************************************************************************)
EXTENDS Integers, Sequences, FiniteSets, TLC

VARIABLES
    users,        \* User rows        [id, email, role]
    projects,     \* Project rows     [id, ownerId, name]
    members,      \* ProjectMember    [id, projectId, userId, projectRole]
    columns,      \* Column rows      [id, projectId, position]
    tasks,        \* Task rows        [id, columnId, position, creatorId, assigneeId, status]
    labels,       \* Label rows       [id, projectId, name]
    taskLabels,   \* TaskLabel rows   [id, taskId, labelId]
    comments,     \* Comment rows     [id, taskId, authorId]
    invitations,  \* Invitation rows  [id, projectId, email, token, status, invitedById]
    activity,     \* ActivityLog rows in creation order [action, actorId, projectId, taskId]
    calls,        \* resolver calls in progress (step-wise specifications only)
    last          \* the response of the call that ended last [op, actor, code, msg]

store == <<users, projects, members, columns, tasks, labels, taskLabels,
           comments, invitations, activity>>
vars == <<users, projects, members, columns, tasks, labels, taskLabels,
          comments, invitations, activity, calls, last>>

----------------------------------------------------------------------------
(* Bounds of the model *)

MaxUsers == 3
MaxProjects == 2
MaxTasks == 3
MaxPos == 4
MaxLog == 5
MaxExtra == 2
MaxInvites == 2
MaxLabels == 1
MaxComments == 1
MaxApiLog == 4
MaxProcs == 2
MaxApiProjects == 1
MaxApiTasks == 1
MaxApiInvites == 1

(* Program constants *)

MinPassword == 8
DefaultColumnCount == 3
MaxLimit == 50

----------------------------------------------------------------------------
(* Text *)

RECURSIVE TrimStart(_)
TrimStart(s) == IF s # <<>> /\ Head(s) = " " THEN TrimStart(Tail(s)) ELSE s

RECURSIVE TrimEnd(_)
TrimEnd(s) ==
    IF s # <<>> /\ s[Len(s)] = " " THEN TrimEnd(SubSeq(s, 1, Len(s) - 1)) ELSE s

trim(s) == TrimEnd(TrimStart(s))

LowerChar(c) ==
    CASE c = "A" -> "a" [] c = "B" -> "b" [] c = "C" -> "c"
      [] c = "X" -> "x" [] c = "T" -> "t" [] OTHER -> c

toLowerCase(s) == [i \in 1..Len(s) |-> LowerChar(s[i])]

includes(s, c) == \E i \in 1..Len(s) : s[i] = c

\* {contains: sub, mode: insensitive}
contains(s, sub) ==
    \E i \in 0..(Len(s) - Len(sub)) :
        toLowerCase(SubSeq(s, i + 1, i + Len(sub))) = toLowerCase(sub)

----------------------------------------------------------------------------
(* Errors: the four GraphQLError codes, and OK for a call that returns *)

OK == [code |-> "OK", msg |-> ""]
unauthenticated == [code |-> "UNAUTHENTICATED", msg |-> "Authentication required"]
forbidden(m) == [code |-> "FORBIDDEN", msg |-> m]
badUserInput(m) == [code |-> "BAD_USER_INPUT", msg |-> m]
notFound(m) == [code |-> "NOT_FOUND", msg |-> m]
\* A store call that throws (foreign key or unique index violated): the
\* resolver does not catch it and the call ends with an unclassified error.
storeError(m) == [code |-> "INTERNAL_SERVER_ERROR", msg |-> m]

----------------------------------------------------------------------------
(* Request context: ctx.user is null or the {id, role} of a verified token *)

NoUser == [id |-> 0, role |-> "NONE"]

buildContext(u) == [id |-> u.id, role |-> u.role]

Contexts == {NoUser} \cup {buildContext(u) : u \in users}

----------------------------------------------------------------------------
(* Store lookups *)

NextId(rows) == Cardinality(rows) + 1

userById(id) == CHOOSE u \in users : u.id = id
columnById(id) == CHOOSE c \in columns : c.id = id
taskById(id) == CHOOSE t \in tasks : t.id = id

membershipOf(projectId, userId) ==
    {m \in members : m.projectId = projectId /\ m.userId = userId}

tasksOf(columnId) == {t \in tasks : t.columnId = columnId}
columnsOf(projectId) == {c \in columns : c.projectId = projectId}

ColumnIds == {c.id : c \in columns}
TaskIds == {t.id : t \in tasks}
ProjectIds == {p.id : p \in projects}

----------------------------------------------------------------------------
(* Guards *)

requireAuthAnyCaller(ctx) == OK

requireAuth(ctx) == IF ctx = NoUser THEN unauthenticated ELSE OK

requireProjectMemberAnyUser(ctx, projectId) == requireAuth(ctx)

requireProjectMemberNoAdminBypass(ctx, projectId) ==
    IF requireAuth(ctx) # OK THEN requireAuth(ctx)
    ELSE IF membershipOf(projectId, ctx.id) = {}
         THEN forbidden("You are not a member of this project")
         ELSE OK

requireProjectMember(ctx, projectId) ==
    IF requireAuth(ctx) # OK THEN requireAuth(ctx)
    ELSE IF ctx.role = "ADMIN" THEN OK
    ELSE IF membershipOf(projectId, ctx.id) = {}
         THEN forbidden("You are not a member of this project")
         ELSE OK

requireProjectOwnerOrAdminAnyMember(ctx, projectId) ==
    IF requireAuth(ctx) # OK THEN requireAuth(ctx)
    ELSE IF ctx.role = "ADMIN" THEN OK
    ELSE IF membershipOf(projectId, ctx.id) = {}
         THEN forbidden("You are not a member of this project")
         ELSE OK

requireProjectOwnerOrAdmin(ctx, projectId) ==
    IF requireAuth(ctx) # OK THEN requireAuth(ctx)
    ELSE IF ctx.role = "ADMIN" THEN OK
    ELSE IF membershipOf(projectId, ctx.id) = {}
         THEN forbidden("You are not a member of this project")
    ELSE IF \E m \in membershipOf(projectId, ctx.id) : m.projectRole # "OWNER"
         THEN forbidden("Owner only")
         ELSE OK

\* getProjectIdByColumnId / getProjectIdByTaskId: the lookup result, and the
\* project id when the row exists.
columnFound(columnId) ==
    IF columnId \in ColumnIds THEN OK ELSE notFound("Column not found")
getProjectIdByColumnId(columnId) == columnById(columnId).projectId

taskFoundAsBadInput(taskId) ==
    IF taskId \in TaskIds THEN OK ELSE badUserInput("Task not found")

taskFound(taskId) ==
    IF taskId \in TaskIds THEN OK ELSE notFound("Task not found")
getProjectIdByTaskId(taskId) == columnById(taskById(taskId).columnId).projectId

----------------------------------------------------------------------------
(* Responses and the audit row *)

Response(op, ctx, r) == [op |-> op, actor |-> ctx.id, code |-> r.code, msg |-> r.msg]

LogRow(action, ctx, projectId, taskId) ==
    [action |-> action, actorId |-> ctx.id, projectId |-> projectId, taskId |-> taskId]

FailsAfterLogging(op, ctx, r) ==
    /\ r # OK
    /\ last' = Response(op, ctx, r)
    /\ activity' = Append(activity, LogRow(op, ctx, 0, 0))
    /\ UNCHANGED <<users, projects, members, columns, tasks, labels, taskLabels,
                   comments, invitations, calls>>

Fails(op, ctx, r) ==
    /\ r # OK
    /\ last' = Response(op, ctx, r)
    /\ UNCHANGED <<store, calls>>

Returns(op, ctx) ==
    /\ last' = Response(op, ctx, OK)
    /\ UNCHANGED calls

LogNothing(action, ctx, projectId, taskId) == activity' = activity

Log(action, ctx, projectId, taskId) ==
    activity' = Append(activity, LogRow(action, ctx, projectId, taskId))

----------------------------------------------------------------------------
(* Mutation.register *)

registerCheckNoLookup(email, password, displayName) ==
    IF ~includes(toLowerCase(trim(email)), "@") THEN badUserInput("Invalid email")
    ELSE IF Len(password) < MinPassword
         THEN badUserInput("Password must be at least 8 characters")
    ELSE IF Len(trim(displayName)) < 1 THEN badUserInput("Display name too short")
    ELSE OK

registerCheck(email, password, displayName) ==
    IF ~includes(toLowerCase(trim(email)), "@") THEN badUserInput("Invalid email")
    ELSE IF Len(password) < MinPassword
         THEN badUserInput("Password must be at least 8 characters")
    ELSE IF Len(trim(displayName)) < 1 THEN badUserInput("Display name too short")
    ELSE IF \E u \in users : u.email = toLowerCase(trim(email))
         THEN badUserInput("Email already registered")
         ELSE OK

register(email, password, displayName) ==
    LET r == registerCheck(email, password, displayName) IN
    \/ Fails("register", NoUser, r)
    \/ /\ r = OK
       /\ users' = users \cup {[id |-> NextId(users),
                                 email |-> toLowerCase(trim(email)),
                                 role |-> "USER"]}
       /\ Returns("register", NoUser)
       /\ UNCHANGED <<projects, members, columns, tasks, labels, taskLabels,
                      comments, invitations, activity>>

----------------------------------------------------------------------------
(* Mutation.createProject: one nested create (project, owner membership,   *)
(* the three default columns and the PROJECT_CREATED row)                  *)

createProjectCheck(ctx, name) ==
    IF requireAuth(ctx) # OK THEN requireAuth(ctx)
    ELSE IF Len(trim(name)) < 1 THEN badUserInput("Project name too short")
    ELSE OK

DefaultColumnsFirstOnly(projectId) ==
    {[id |-> NextId(columns), projectId |-> projectId, position |-> 1]}

DefaultColumns(projectId) ==
    {[id |-> NextId(columns) + (i - 1), projectId |-> projectId, position |-> i] :
        i \in 1..DefaultColumnCount}

createProject(ctx, name) ==
    LET r == createProjectCheck(ctx, name)
        id == NextId(projects)
    IN
    \/ Fails("createProject", ctx, r)
    \/ /\ r = OK
       /\ projects' = projects \cup {[id |-> id, ownerId |-> ctx.id,
                                       name |-> trim(name)]}
       /\ members' = members \cup {[id |-> NextId(members), projectId |-> id,
                                     userId |-> ctx.id, projectRole |-> "OWNER"]}
       /\ columns' = columns \cup DefaultColumns(id)
       /\ Log("PROJECT_CREATED", ctx, id, 0)
       /\ Returns("createProject", ctx)
       /\ UNCHANGED <<users, tasks, labels, taskLabels, comments, invitations>>

----------------------------------------------------------------------------
(* Mutation.createColumn *)

createColumnCheck(ctx, projectId, title, position) ==
    IF requireProjectOwnerOrAdmin(ctx, projectId) # OK
    THEN requireProjectOwnerOrAdmin(ctx, projectId)
    ELSE IF Len(trim(title)) < 1 THEN badUserInput("Column title required")
    ELSE IF position < 1 THEN badUserInput("Invalid position")
    ELSE IF projectId \notin ProjectIds THEN storeError("Column_projectId_fkey")
    ELSE OK

shiftColumnsAfter(rows, projectId, position) ==
    {IF c.projectId = projectId /\ c.position > position
     THEN [c EXCEPT !.position = @ + 1] ELSE c : c \in rows}

\* updateMany({projectId, position >= P}, increment 1)
shiftColumns(rows, projectId, position) ==
    {IF c.projectId = projectId /\ c.position >= position
     THEN [c EXCEPT !.position = @ + 1] ELSE c : c \in rows}

\* column.updateMany (the shift), then column.create at the position
insertColumn(rows, projectId, position) ==
    shiftColumns(rows, projectId, position) \cup
       {[id |-> NextId(rows), projectId |-> projectId, position |-> position]}

createColumn(ctx, projectId, title, position) ==
    LET r == createColumnCheck(ctx, projectId, title, position) IN
    \/ Fails("createColumn", ctx, r)
    \/ /\ r = OK
       /\ columns' = insertColumn(columns, projectId, position)
       /\ Log("COLUMN_CREATED", ctx, projectId, 0)
       /\ Returns("createColumn", ctx)
       /\ UNCHANGED <<users, projects, members, tasks, labels, taskLabels,
                      comments, invitations>>

----------------------------------------------------------------------------
(* Mutation.createTask *)

assigneeCheckAnyUser(ctx, projectId, assigneeId) ==
    IF assigneeId # 0 /\ assigneeId \notin {u.id : u \in users}
    THEN storeError("Task_assigneeId_fkey")
    ELSE OK

\* The assignee rule shared by createTask and assignTask.
assigneeCheck(ctx, projectId, assigneeId) ==
    IF assigneeId # 0 /\ membershipOf(projectId, assigneeId) = {}
          /\ ctx.role # "ADMIN"
    THEN forbidden("Assignee must be a project member")
    ELSE IF assigneeId # 0 /\ assigneeId \notin {u.id : u \in users}
    THEN storeError("Task_assigneeId_fkey")
    ELSE OK

createTaskCheck(ctx, columnId, title, assigneeId) ==
    IF columnFound(columnId) # OK THEN columnFound(columnId)
    ELSE IF requireProjectMember(ctx, getProjectIdByColumnId(columnId)) # OK
         THEN requireProjectMember(ctx, getProjectIdByColumnId(columnId))
    ELSE IF Len(trim(title)) < 1 THEN badUserInput("Task title required")
    ELSE assigneeCheck(ctx, getProjectIdByColumnId(columnId), assigneeId)

lastPositionOfNoTask(rows, columnId) == 0

\* findFirst({columnId}, orderBy position desc)?.position ?? 0
lastPosition(rows, columnId) ==
    LET ps == {t.position : t \in {x \in rows : x.columnId = columnId}} IN
    IF ps = {} THEN 0 ELSE CHOOSE p \in ps : \A q \in ps : q <= p

\* task.create({columnId, creatorId, assigneeId, position, status: TODO})
taskRow(ctx, columnId, assigneeId, position) ==
    [id |-> NextId(tasks), columnId |-> columnId, position |-> position,
     creatorId |-> ctx.id, assigneeId |-> assigneeId, status |-> "TODO"]

newTask(ctx, columnId, assigneeId) ==
    taskRow(ctx, columnId, assigneeId, lastPosition(tasks, columnId) + 1)

createTask(ctx, columnId, title, assigneeId) ==
    LET r == createTaskCheck(ctx, columnId, title, assigneeId) IN
    \/ Fails("createTask", ctx, r)
    \/ /\ r = OK
       /\ tasks' = tasks \cup {newTask(ctx, columnId, assigneeId)}
       /\ Log("TASK_CREATED", ctx, getProjectIdByColumnId(columnId), NextId(tasks))
       /\ Returns("createTask", ctx)
       /\ UNCHANGED <<users, projects, members, columns, labels, taskLabels,
                      comments, invitations>>

----------------------------------------------------------------------------
(* Mutation.updateTask: a field is applied when the input supplies it *)

updateTaskCheck(ctx, taskId, input) ==
    IF taskFound(taskId) # OK THEN taskFound(taskId)
    ELSE IF requireProjectMember(ctx, getProjectIdByTaskId(taskId)) # OK
         THEN requireProjectMember(ctx, getProjectIdByTaskId(taskId))
    ELSE IF input.hasTitle /\ Len(trim(input.title)) < 1
         THEN badUserInput("Title cannot be empty")
    ELSE OK

updateTask(ctx, taskId, input) ==
    LET r == updateTaskCheck(ctx, taskId, input) IN
    \/ Fails("updateTask", ctx, r)
    \/ /\ r = OK
       /\ tasks' = {IF t.id = taskId /\ input.hasStatus
                    THEN [t EXCEPT !.status = input.status] ELSE t : t \in tasks}
       /\ Log("TASK_UPDATED", ctx, getProjectIdByTaskId(taskId), taskId)
       /\ Returns("updateTask", ctx)
       /\ UNCHANGED <<users, projects, members, columns, labels, taskLabels,
                      comments, invitations>>

----------------------------------------------------------------------------
(* Mutation.moveTask *)

moveTaskCheckNoProjectMatch(ctx, taskId, toColumnId, toPosition) ==
    IF taskFound(taskId) # OK THEN taskFound(taskId)
    ELSE IF columnFound(toColumnId) # OK THEN columnFound(toColumnId)
    ELSE IF requireProjectMember(ctx, getProjectIdByTaskId(taskId)) # OK
         THEN requireProjectMember(ctx, getProjectIdByTaskId(taskId))
    ELSE IF toPosition < 1 THEN badUserInput("Invalid toPosition")
    ELSE OK

moveTaskCheckGuardFirst(ctx, taskId, toColumnId, toPosition) ==
    IF requireAuth(ctx) # OK THEN requireAuth(ctx)
    ELSE IF taskFound(taskId) # OK THEN taskFound(taskId)
    ELSE IF columnFound(toColumnId) # OK THEN columnFound(toColumnId)
    ELSE IF requireProjectMember(ctx, getProjectIdByTaskId(taskId)) # OK
         THEN requireProjectMember(ctx, getProjectIdByTaskId(taskId))
    ELSE IF getProjectIdByTaskId(taskId) # getProjectIdByColumnId(toColumnId)
         THEN forbidden("Cannot move task across projects")
    ELSE IF toPosition < 1 THEN badUserInput("Invalid toPosition")
    ELSE OK

moveTaskCheck(ctx, taskId, toColumnId, toPosition) ==
    IF taskFound(taskId) # OK THEN taskFound(taskId)
    ELSE IF columnFound(toColumnId) # OK THEN columnFound(toColumnId)
    ELSE IF getProjectIdByTaskId(taskId) # getProjectIdByColumnId(toColumnId)
         THEN forbidden("Cannot move task across projects")
    ELSE IF requireProjectMember(ctx, getProjectIdByTaskId(taskId)) # OK
         THEN requireProjectMember(ctx, getProjectIdByTaskId(taskId))
    ELSE IF toPosition < 1 THEN badUserInput("Invalid toPosition")
    ELSE OK

shiftTasksEveryColumn(rows, toColumnId, toPosition) ==
    {IF t.position >= toPosition
     THEN [t EXCEPT !.position = @ + 1] ELSE t : t \in rows}

\* updateMany({columnId: toColumnId, position >= toPosition}, increment 1)
shiftTasks(rows, toColumnId, toPosition) ==
    {IF t.columnId = toColumnId /\ t.position >= toPosition
     THEN [t EXCEPT !.position = @ + 1] ELSE t : t \in rows}

\* update({id: taskId}, {columnId: toColumnId, position: toPosition})
placeTask(rows, taskId, toColumnId, toPosition) ==
    {IF t.id = taskId
     THEN [t EXCEPT !.columnId = toColumnId, !.position = toPosition]
     ELSE t : t \in rows}

\* findMany({columnId}, orderBy position asc, select id): every order of the
\* ids that is ascending in position (rows of equal position come in an order
\* the store chooses).
sourceTasks(rows, columnId) ==
    LET src == {t \in rows : t.columnId = columnId}
        n == Cardinality(src)
        pos(id) == (CHOOSE t \in src : t.id = id).position
    IN {o \in [1..n -> {t.id : t \in src}] :
          /\ \A i, j \in 1..n : i # j => o[i] # o[j]
          /\ \A i, j \in 1..n : i < j => pos(o[i]) <= pos(o[j])}

\* sourceTasks.map((t, idx) => update({id: t.id}, {position: idx + 1}))
renumber(rows, order) ==
    {IF \E i \in DOMAIN order : order[i] = t.id
     THEN [t EXCEPT !.position = CHOOSE i \in DOMAIN order : order[i] = t.id]
     ELSE t : t \in rows}

\* The task table after the four store writes of a move that runs to its end:
\* shift, place, read the column the task came from, renumber it.
moveResults(rows, taskId, toColumnId, toPosition) ==
    LET task == CHOOSE t \in rows : t.id = taskId
        moved == placeTask(shiftTasks(rows, toColumnId, toPosition),
                           taskId, toColumnId, toPosition)
    IN {renumber(moved, order) : order \in sourceTasks(moved, task.columnId)}

moveTask(ctx, taskId, toColumnId, toPosition) ==
    LET r == moveTaskCheck(ctx, taskId, toColumnId, toPosition) IN
    \/ Fails("moveTask", ctx, r)
    \/ /\ r = OK
       /\ tasks' \in moveResults(tasks, taskId, toColumnId, toPosition)
       /\ Log("TASK_MOVED", ctx, getProjectIdByTaskId(taskId), taskId)
       /\ Returns("moveTask", ctx)
       /\ UNCHANGED <<users, projects, members, columns, labels, taskLabels,
                      comments, invitations>>

----------------------------------------------------------------------------
(* Mutation.assignTask *)

assignTaskCheck(ctx, taskId, assigneeId) ==
    IF taskFound(taskId) # OK THEN taskFound(taskId)
    ELSE IF requireProjectMember(ctx, getProjectIdByTaskId(taskId)) # OK
         THEN requireProjectMember(ctx, getProjectIdByTaskId(taskId))
    ELSE assigneeCheck(ctx, getProjectIdByTaskId(taskId), assigneeId)

assignTask(ctx, taskId, assigneeId) ==
    LET r == assignTaskCheck(ctx, taskId, assigneeId) IN
    \/ Fails("assignTask", ctx, r)
    \/ /\ r = OK
       /\ tasks' = {IF t.id = taskId THEN [t EXCEPT !.assigneeId = assigneeId]
                    ELSE t : t \in tasks}
       /\ Log("TASK_ASSIGNED", ctx, getProjectIdByTaskId(taskId), taskId)
       /\ Returns("assignTask", ctx)
       /\ UNCHANGED <<users, projects, members, columns, labels, taskLabels,
                      comments, invitations>>

----------------------------------------------------------------------------
(* Mutation.commentTask *)

commentTaskCheck(ctx, taskId, content) ==
    IF requireAuth(ctx) # OK THEN requireAuth(ctx)
    ELSE IF taskFound(taskId) # OK THEN taskFound(taskId)
    ELSE IF requireProjectMember(ctx, getProjectIdByTaskId(taskId)) # OK
         THEN requireProjectMember(ctx, getProjectIdByTaskId(taskId))
    ELSE IF Len(trim(content)) < 1 THEN badUserInput("Comment content required")
    ELSE OK

commentTask(ctx, taskId, content) ==
    LET r == commentTaskCheck(ctx, taskId, content) IN
    \/ Fails("commentTask", ctx, r)
    \/ /\ r = OK
       /\ comments' = comments \cup {[id |-> NextId(comments), taskId |-> taskId,
                                       authorId |-> ctx.id]}
       /\ Log("COMMENT_ADDED", ctx, getProjectIdByTaskId(taskId), taskId)
       /\ Returns("commentTask", ctx)
       /\ UNCHANGED <<users, projects, members, columns, tasks, labels,
                      taskLabels, invitations>>

----------------------------------------------------------------------------
(* Mutation.inviteMember: the token is random and unique; the model uses   *)
(* the invitation's id as its token                                        *)

inviteMemberCheck(ctx, projectId, email) ==
    IF requireProjectOwnerOrAdmin(ctx, projectId) # OK
    THEN requireProjectOwnerOrAdmin(ctx, projectId)
    ELSE IF ~includes(toLowerCase(trim(email)), "@") THEN badUserInput("Invalid email")
    ELSE IF projectId \notin ProjectIds THEN storeError("Invitation_projectId_fkey")
    ELSE OK

\* invitation.create({projectId, email, token, invitedById}), status PENDING
invitationRow(ctx, projectId, email) ==
    [id |-> NextId(invitations), projectId |-> projectId,
     email |-> toLowerCase(trim(email)), token |-> NextId(invitations),
     status |-> "PENDING", invitedById |-> ctx.id]

inviteMember(ctx, projectId, email) ==
    LET r == inviteMemberCheck(ctx, projectId, email) IN
    \/ Fails("inviteMember", ctx, r)
    \/ /\ r = OK
       /\ invitations' = invitations \cup {invitationRow(ctx, projectId, email)}
       /\ Log("MEMBER_INVITED", ctx, projectId, 0)
       /\ Returns("inviteMember", ctx)
       /\ UNCHANGED <<users, projects, members, columns, tasks, labels,
                      taskLabels, comments>>

----------------------------------------------------------------------------
(* Mutation.acceptInvite *)

inviteByToken(token) == {i \in invitations : i.token = token}

acceptInviteCheckAnyEmail(ctx, token) ==
    IF requireAuth(ctx) # OK THEN requireAuth(ctx)
    ELSE IF inviteByToken(token) = {} THEN notFound("Invitation not found")
    ELSE IF \E i \in inviteByToken(token) : i.status # "PENDING"
         THEN badUserInput("Invitation is not pending")
    ELSE IF ~\E u \in users : u.id = ctx.id THEN unauthenticated
    ELSE OK

acceptInviteCheckAnyStatus(ctx, token) ==
    IF requireAuth(ctx) # OK THEN requireAuth(ctx)
    ELSE IF inviteByToken(token) = {} THEN notFound("Invitation not found")
    ELSE IF ~\E u \in users : u.id = ctx.id THEN unauthenticated
    ELSE IF /\ \E i \in inviteByToken(token) :
                 toLowerCase(userById(ctx.id).email) # toLowerCase(i.email)
            /\ ctx.role # "ADMIN"
         THEN forbidden("This invite is for a different email")
    ELSE OK

acceptInviteCheck(ctx, token) ==
    IF requireAuth(ctx) # OK THEN requireAuth(ctx)
    ELSE IF inviteByToken(token) = {} THEN notFound("Invitation not found")
    ELSE IF \E i \in inviteByToken(token) : i.status # "PENDING"
         THEN badUserInput("Invitation is not pending")
    ELSE IF ~\E u \in users : u.id = ctx.id THEN unauthenticated
    ELSE IF /\ \E i \in inviteByToken(token) :
                 toLowerCase(userById(ctx.id).email) # toLowerCase(i.email)
            /\ ctx.role # "ADMIN"
         THEN forbidden("This invite is for a different email")
    ELSE OK

createMember(rows, projectId, userId) ==
    rows \cup {[id |-> NextId(rows), projectId |-> projectId, userId |-> userId,
                projectRole |-> "MEMBER"]}

upsertMemberAsMember(rows, projectId, userId) ==
    {IF m.projectId = projectId /\ m.userId = userId
     THEN [m EXCEPT !.projectRole = "MEMBER"] ELSE m : m \in rows}
    \cup {[id |-> NextId(rows), projectId |-> projectId, userId |-> userId,
            projectRole |-> "MEMBER"] :
             x \in {y \in {0} : membershipOf(projectId, userId) = {}}}

upsertMemberForInvitee(rows, projectId, userId) ==
    LET invitees == {u.id : u \in {u \in users :
                        \E i \in invitations :
                           /\ i.projectId = projectId
                           /\ i.status = "PENDING"
                           /\ toLowerCase(u.email) = toLowerCase(i.email)}}
    IN IF invitees = {} \/ userId \in invitees
       THEN (IF \E m \in rows : m.projectId = projectId /\ m.userId = userId
             THEN rows ELSE createMember(rows, projectId, userId))
       ELSE createMember(rows, projectId, CHOOSE x \in invitees : TRUE)

\* projectMember.upsert({projectId_userId}, update: {}, create: {... MEMBER})
upsertMember(rows, projectId, userId) ==
    IF \E m \in rows : m.projectId = projectId /\ m.userId = userId
    THEN rows
    ELSE createMember(rows, projectId, userId)

\* invitation.update({token}, {status: ACCEPTED})
acceptInvitation(rows, token) ==
    {IF i.token = token THEN [i EXCEPT !.status = "ACCEPTED"] ELSE i : i \in rows}

acceptInvite(ctx, token) ==
    LET r == acceptInviteCheck(ctx, token) IN
    \/ Fails("acceptInvite", ctx, r)
    \/ /\ r = OK
       /\ LET invite == CHOOSE i \in invitations : i.token = token IN
          /\ members' = upsertMember(members, invite.projectId, ctx.id)
          /\ invitations' = acceptInvitation(invitations, token)
          /\ Log("INVITE_ACCEPTED", ctx, invite.projectId, 0)
       /\ Returns("acceptInvite", ctx)
       /\ UNCHANGED <<users, projects, columns, tasks, labels, taskLabels, comments>>

----------------------------------------------------------------------------
(* Mutation.createLabel *)

createLabelCheck(ctx, projectId, name) ==
    IF requireProjectOwnerOrAdmin(ctx, projectId) # OK
    THEN requireProjectOwnerOrAdmin(ctx, projectId)
    ELSE IF Len(trim(name)) < 1 THEN badUserInput("Label name required")
    ELSE IF projectId \notin ProjectIds THEN storeError("Label_projectId_fkey")
    ELSE IF \E l \in labels : l.projectId = projectId /\ l.name = trim(name)
         THEN storeError("Label_projectId_name_key")
    ELSE OK

createLabel(ctx, projectId, name) ==
    LET r == createLabelCheck(ctx, projectId, name) IN
    \/ Fails("createLabel", ctx, r)
    \/ /\ r = OK
       /\ labels' = labels \cup {[id |-> NextId(labels), projectId |-> projectId,
                                   name |-> trim(name)]}
       /\ Log("LABEL_CREATED", ctx, projectId, 0)
       /\ Returns("createLabel", ctx)
       /\ UNCHANGED <<users, projects, members, columns, tasks, taskLabels,
                      comments, invitations>>

----------------------------------------------------------------------------
(* Mutation.addLabelToTask / removeLabelFromTask *)

taskLabelCheck(ctx, taskId, labelId) ==
    IF taskFound(taskId) # OK THEN taskFound(taskId)
    ELSE IF requireProjectMember(ctx, getProjectIdByTaskId(taskId)) # OK
         THEN requireProjectMember(ctx, getProjectIdByTaskId(taskId))
    ELSE IF ~\E l \in labels : l.id = labelId THEN notFound("Label not found")
    ELSE IF \E l \in labels : l.id = labelId /\ l.projectId # getProjectIdByTaskId(taskId)
         THEN forbidden("Label does not belong to this project")
    ELSE OK

upsertTaskLabelAlwaysCreate(rows, taskId, labelId) ==
    rows \cup {[id |-> NextId(rows), taskId |-> taskId, labelId |-> labelId]}

\* taskLabel.upsert({taskId_labelId}, update: {}, create: {taskId, labelId})
upsertTaskLabel(rows, taskId, labelId) ==
    IF \E x \in rows : x.taskId = taskId /\ x.labelId = labelId
    THEN rows
    ELSE rows \cup {[id |-> NextId(rows), taskId |-> taskId, labelId |-> labelId]}

\* taskLabel.deleteMany({taskId, labelId})
deleteTaskLabels(rows, taskId, labelId) ==
    {x \in rows : ~(x.taskId = taskId /\ x.labelId = labelId)}

addLabelToTask(ctx, taskId, labelId) ==
    LET r == taskLabelCheck(ctx, taskId, labelId) IN
    \/ Fails("addLabelToTask", ctx, r)
    \/ /\ r = OK
       /\ taskLabels' = upsertTaskLabel(taskLabels, taskId, labelId)
       /\ Log("LABEL_ADDED_TO_TASK", ctx, getProjectIdByTaskId(taskId), taskId)
       /\ Returns("addLabelToTask", ctx)
       /\ UNCHANGED <<users, projects, members, columns, tasks, labels,
                      comments, invitations>>

removeLabelFromTask(ctx, taskId, labelId) ==
    LET r == taskLabelCheck(ctx, taskId, labelId) IN
    \/ Fails("removeLabelFromTask", ctx, r)
    \/ /\ r = OK
       /\ taskLabels' = deleteTaskLabels(taskLabels, taskId, labelId)
       /\ Log("LABEL_REMOVED_FROM_TASK", ctx, getProjectIdByTaskId(taskId), taskId)
       /\ Returns("removeLabelFromTask", ctx)
       /\ UNCHANGED <<users, projects, members, columns, tasks, labels,
                      comments, invitations>>

----------------------------------------------------------------------------
(* Queries: a query reads the store and returns or fails *)

\* parseOrThrow(paginationSchema, {offset, limit})
parseOrThrow(offset, limit) ==
    IF offset >= 0 /\ limit >= 1 /\ limit <= MaxLimit THEN OK
    ELSE badUserInput("Validation error")

projectCheck(ctx, projectId) ==
    IF requireProjectMember(ctx, projectId) # OK
    THEN requireProjectMember(ctx, projectId)
    ELSE IF projectId \notin ProjectIds THEN notFound("Project not found")
    ELSE OK

\* Query.tasks and Query.activityLog guard and validate alike
projectPageCheck(ctx, projectId, offset, limit) ==
    IF requireProjectMember(ctx, projectId) # OK
    THEN requireProjectMember(ctx, projectId)
    ELSE parseOrThrow(offset, limit)

commentsCheck(ctx, taskId, offset, limit) ==
    IF taskFound(taskId) # OK THEN taskFound(taskId)
    ELSE IF requireProjectMember(ctx, getProjectIdByTaskId(taskId)) # OK
         THEN requireProjectMember(ctx, getProjectIdByTaskId(taskId))
    ELSE parseOrThrow(offset, limit)

Query(op, ctx, r) ==
    /\ last' = Response(op, ctx, r)
    /\ UNCHANGED <<store, calls>>

\* Query.me
meCheck(ctx) ==
    IF requireAuth(ctx) # OK THEN requireAuth(ctx)
    ELSE IF ~\E u \in users : u.id = ctx.id THEN unauthenticated
    ELSE OK

me(ctx) == Query("me", ctx, meCheck(ctx))

\* Query.projects: search is [has, text], has = FALSE when the argument is
\* not given.
projectsCheck(ctx, offset, limit, search) ==
    IF requireAuth(ctx) # OK THEN requireAuth(ctx)
    ELSE IF parseOrThrow(offset, limit) # OK THEN parseOrThrow(offset, limit)
    ELSE IF search.has /\ Len(trim(search.text)) = 0
         THEN badUserInput("search cannot be empty")
    ELSE OK

projectsWhereEveryProject(ctx, search) ==
    {p \in projects : search.has => contains(p.name, trim(search.text))}

\* where: every project for an ADMIN, the projects with a membership row of
\* the actor otherwise; narrowed by name when search is given.
projectsWhere(ctx, search) ==
    {p \in projects :
        /\ ctx.role = "ADMIN" \/ membershipOf(p.id, ctx.id) # {}
        /\ search.has => contains(p.name, trim(search.text))}

\* orderBy createdAt desc: ids are handed out in creation order
RECURSIVE newestFirst(_)
newestFirst(rows) ==
    IF rows = {} THEN <<>>
    ELSE LET newest == CHOOSE r \in rows : \A q \in rows : q.id <= r.id
         IN <<newest>> \o newestFirst(rows \ {newest})

\* skip: offset, take: limit
skipTake(seq, offset, limit) ==
    [i \in 1..(IF Len(seq) - offset < 0 THEN 0
               ELSE IF Len(seq) - offset < limit THEN Len(seq) - offset
               ELSE limit) |-> seq[offset + i]]

\* {items, total} of a call that passes projectsCheck
projectsResult(ctx, offset, limit, search) ==
    [total |-> Cardinality(projectsWhere(ctx, search)),
     items |-> skipTake(newestFirst(projectsWhere(ctx, search)), offset, limit)]

projectsQuery(ctx, offset, limit, search) ==
    Query("projects", ctx, projectsCheck(ctx, offset, limit, search))

project(ctx, projectId) == Query("project", ctx, projectCheck(ctx, projectId))
tasksQuery(ctx, projectId, offset, limit) ==
    Query("tasks", ctx, projectPageCheck(ctx, projectId, offset, limit))
commentsQuery(ctx, taskId, offset, limit) ==
    Query("comments", ctx, commentsCheck(ctx, taskId, offset, limit))
activityLog(ctx, projectId, offset, limit) ==
    Query("activityLog", ctx, projectPageCheck(ctx, projectId, offset, limit))

----------------------------------------------------------------------------
(* Initial state: the migrated, empty store with the two accounts that     *)
(* prisma/seed.ts provisions (register only ever creates USER accounts, so *)
(* an ADMIN exists only by provisioning).                                  *)

AdminEmail == <<"a", "@", "x">>
UserEmail == <<"b", "@", "x">>

Procs == 1..MaxProcs

Idle == [pc |-> "idle"]

Init ==
    /\ users = {[id |-> 1, email |-> AdminEmail, role |-> "ADMIN"],
                [id |-> 2, email |-> UserEmail, role |-> "USER"]}
    /\ projects = {}
    /\ members = {}
    /\ columns = {}
    /\ tasks = {}
    /\ labels = {}
    /\ taskLabels = {}
    /\ comments = {}
    /\ invitations = {}
    /\ activity = <<>>
    /\ calls = [p \in Procs |-> Idle]
    /\ last = [op |-> "none", actor |-> 0, code |-> "OK", msg |-> ""]

----------------------------------------------------------------------------
(* Inputs *)

Texts == {<<"T">>, <<" ">>}
Password == <<"p", "a", "s", "s", "w", "o", "r", "d">>
NewEmails == {<<" ", "C", "@", "X">>, <<"b", "@", "x">>, <<"c">>}
Positions == 0..MaxPos
ColumnArgs == 1..(DefaultColumnCount * MaxProjects)
TaskArgs == 1..MaxTasks

\* The activity log is the only table every mutation grows: a run is cut
\* off when it holds MaxLog rows.
Budget == Len(activity) < MaxLog

----------------------------------------------------------------------------
(* The board: projects, tasks and moves, calls run one at a time *)

BoardActors == {NoUser} \cup {buildContext(u) : u \in {x \in users : x.role = "USER"}}

BoardCreateProject ==
    \E ctx \in BoardActors, name \in Texts :
        Budget /\ Cardinality(projects) < MaxProjects /\ createProject(ctx, name)

BoardCreateTask ==
    \E ctx \in BoardActors, columnId \in ColumnArgs, title \in Texts :
        Budget /\ Cardinality(tasks) < MaxTasks /\ createTask(ctx, columnId, title, 0)

BoardMoveTask ==
    \E ctx \in Contexts, taskId \in TaskArgs, toColumnId \in ColumnArgs,
       toPosition \in Positions :
        Budget /\ moveTask(ctx, taskId, toColumnId, toPosition)

NextBoard == BoardCreateProject \/ BoardCreateTask \/ BoardMoveTask

SpecBoard == Init /\ [][NextBoard]_vars

----------------------------------------------------------------------------
(* The columns of a project: createProject and createColumn, one at a time *)

ProjectArgs == 1..MaxProjects
ColumnPositions == 0..(DefaultColumnCount + MaxExtra)

ColumnsCreateProject ==
    \E ctx \in Contexts, name \in Texts :
        Budget /\ Cardinality(projects) < MaxProjects /\ createProject(ctx, name)

ColumnsCreateColumn ==
    \E ctx \in Contexts, projectId \in ProjectArgs, title \in Texts,
       position \in ColumnPositions :
        Budget /\ createColumn(ctx, projectId, title, position)

NextColumns == ColumnsCreateProject \/ ColumnsCreateColumn

SpecColumns == Init /\ [][NextColumns]_vars

----------------------------------------------------------------------------
(* Invitations: register, createProject, inviteMember and acceptInvite,    *)
(* one at a time                                                           *)

InviteEmails == {<<" ", "C", "@", "X">>, <<"b", "@", "x">>, <<"c">>}
TokenArgs == 1..MaxInvites

InviteRegister ==
    \E email \in NewEmails, password \in {Password, <<"p">>} :
        Budget /\ Cardinality(users) < MaxUsers /\ register(email, password, <<"U">>)

InviteCreateProject ==
    \E ctx \in Contexts, name \in Texts :
        Budget /\ Cardinality(projects) < MaxProjects /\ createProject(ctx, name)

InviteInviteMember ==
    \E ctx \in Contexts, projectId \in ProjectArgs, email \in InviteEmails :
        Budget /\ Cardinality(invitations) < MaxInvites
               /\ inviteMember(ctx, projectId, email)

InviteAcceptInvite ==
    \E ctx \in Contexts, token \in TokenArgs :
        Budget /\ acceptInvite(ctx, token)

NextInvite ==
    InviteRegister \/ InviteCreateProject \/ InviteInviteMember \/ InviteAcceptInvite

SpecInvite == Init /\ [][NextInvite]_vars

----------------------------------------------------------------------------
(* The whole API, calls run one at a time *)

\* The whole API is explored to a smaller depth than its parts.
ApiBudget == Len(activity) < MaxApiLog

\* Arguments: the ids that exist and one that does not.
ApiProjectArgs == 1..(MaxApiProjects + 1)
ApiColumnArgs == 1..(DefaultColumnCount * MaxApiProjects + 1)
ApiTaskArgs == 1..(MaxApiTasks + 1)
AssigneeArgs == {0, Cardinality(users), Cardinality(users) + 1}
ApiTokenArgs == 1..(MaxApiInvites + 1)
LabelArgs == 1..(MaxLabels + 1)
EdgePositions == {0, 1}
Pages == {[offset |-> 0, limit |-> 1], [offset |-> 0, limit |-> MaxLimit + 1]}
UpdateInputs ==
    {[hasTitle |-> FALSE, title |-> <<>>, hasStatus |-> FALSE, status |-> "TODO"],
     [hasTitle |-> TRUE, title |-> <<" ">>, hasStatus |-> FALSE, status |-> "TODO"],
     [hasTitle |-> TRUE, title |-> <<"T">>, hasStatus |-> TRUE, status |-> "DONE"]}

CreateProject ==
    \E ctx \in Contexts, name \in Texts :
        ApiBudget /\ Cardinality(projects) < MaxApiProjects /\ createProject(ctx, name)

CreateColumn ==
    \E ctx \in Contexts, projectId \in ApiProjectArgs, title \in Texts,
       position \in EdgePositions :
        ApiBudget /\ createColumn(ctx, projectId, title, position)

CreateTask ==
    \E ctx \in Contexts, columnId \in ApiColumnArgs, title \in Texts,
       assigneeId \in AssigneeArgs :
        ApiBudget /\ Cardinality(tasks) < MaxApiTasks
               /\ createTask(ctx, columnId, title, assigneeId)

UpdateTask ==
    \E ctx \in Contexts, taskId \in ApiTaskArgs, input \in UpdateInputs :
        ApiBudget /\ updateTask(ctx, taskId, input)

MoveTask ==
    \E ctx \in Contexts, taskId \in ApiTaskArgs, toColumnId \in ApiColumnArgs,
       toPosition \in EdgePositions :
        ApiBudget /\ moveTask(ctx, taskId, toColumnId, toPosition)

AssignTask ==
    \E ctx \in Contexts, taskId \in ApiTaskArgs, assigneeId \in AssigneeArgs :
        ApiBudget /\ assignTask(ctx, taskId, assigneeId)

CommentTask ==
    \E ctx \in Contexts, taskId \in ApiTaskArgs, content \in Texts :
        ApiBudget /\ Cardinality(comments) < MaxComments
               /\ commentTask(ctx, taskId, content)

InviteMember ==
    \E ctx \in Contexts, projectId \in ApiProjectArgs, email \in InviteEmails :
        ApiBudget /\ Cardinality(invitations) < MaxApiInvites
               /\ inviteMember(ctx, projectId, email)

AcceptInvite ==
    \E ctx \in Contexts, token \in ApiTokenArgs :
        ApiBudget /\ acceptInvite(ctx, token)

CreateLabel ==
    \E ctx \in Contexts, projectId \in ApiProjectArgs, name \in Texts :
        ApiBudget /\ Cardinality(labels) < MaxLabels /\ createLabel(ctx, projectId, name)

AddLabelToTask ==
    \E ctx \in Contexts, taskId \in ApiTaskArgs, labelId \in LabelArgs :
        ApiBudget /\ addLabelToTask(ctx, taskId, labelId)

RemoveLabelFromTask ==
    \E ctx \in Contexts, taskId \in ApiTaskArgs, labelId \in LabelArgs :
        ApiBudget /\ removeLabelFromTask(ctx, taskId, labelId)

ProjectQuery ==
    \E ctx \in Contexts, projectId \in ApiProjectArgs :
        ApiBudget /\ project(ctx, projectId)

TasksQuery ==
    \E ctx \in Contexts, projectId \in ApiProjectArgs, page \in Pages :
        ApiBudget /\ tasksQuery(ctx, projectId, page.offset, page.limit)

CommentsQuery ==
    \E ctx \in Contexts, taskId \in ApiTaskArgs, page \in Pages :
        ApiBudget /\ commentsQuery(ctx, taskId, page.offset, page.limit)

ActivityLogQuery ==
    \E ctx \in Contexts, projectId \in ApiProjectArgs, page \in Pages :
        ApiBudget /\ activityLog(ctx, projectId, page.offset, page.limit)

Searches ==
    {[has |-> FALSE, text |-> <<>>], [has |-> TRUE, text |-> <<" ">>],
     [has |-> TRUE, text |-> <<"t">>], [has |-> TRUE, text |-> <<"z">>]}

MeQuery == \E ctx \in Contexts : ApiBudget /\ me(ctx)

ProjectsQuery ==
    \E ctx \in Contexts, pg \in Pages, search \in Searches :
        ApiBudget /\ projectsQuery(ctx, pg.offset, pg.limit, search)

Next ==
    \/ CreateProject \/ CreateColumn \/ CreateTask \/ UpdateTask \/ MoveTask
    \/ AssignTask \/ CommentTask \/ InviteMember \/ AcceptInvite \/ CreateLabel
    \/ AddLabelToTask \/ RemoveLabelFromTask
    \/ ProjectQuery \/ TasksQuery \/ CommentsQuery \/ ActivityLogQuery
    \/ MeQuery \/ ProjectsQuery

Spec == Init /\ [][Next]_vars

----------------------------------------------------------------------------
(* Store call by store call.  A resolver awaits each store call in turn and *)
(* none of them runs inside a transaction, so a call can stop between two  *)
(* store calls (the store call throws, the server process dies) and what   *)
(* it wrote before stays written.  The guards and lookups that precede the *)
(* first write are taken in the step that begins the call.                 *)

AllIdle == \A p \in Procs : calls[p] = Idle

FirstProc == CHOOSE p \in Procs : \A q \in Procs : p <= q

Goto(p, call) == calls' = [calls EXCEPT ![p] = call]

Done(p) ==
    /\ last' = Response(calls[p].op, calls[p].ctx, OK)
    /\ calls' = [calls EXCEPT ![p] = Idle]

Rejected(op, ctx, r) ==
    /\ r # OK
    /\ last' = Response(op, ctx, r)
    /\ UNCHANGED <<store, calls>>

\* createTask: findFirst (last position), task.create, activityLog.create
createTaskBegin(p, ctx, columnId, title, assigneeId) ==
    LET r == createTaskCheck(ctx, columnId, title, assigneeId) IN
    /\ calls[p] = Idle
    /\ \/ Rejected("createTask", ctx, r)
       \/ /\ r = OK
          /\ Goto(p, [pc |-> "findLast", op |-> "createTask", ctx |-> ctx,
                      columnId |-> columnId, assigneeId |-> assigneeId,
                      projectId |-> getProjectIdByColumnId(columnId),
                      position |-> 0, taskId |-> 0])
          /\ UNCHANGED <<store, last>>

createTaskFindLast(p) ==
    /\ calls[p].pc = "findLast"
    /\ Goto(p, [calls[p] EXCEPT !.pc = "create",
                                !.position = lastPosition(tasks, calls[p].columnId) + 1])
    /\ UNCHANGED <<store, last>>

createTaskCreate(p) ==
    /\ calls[p].pc = "create"
    /\ calls[p].op = "createTask"
    /\ tasks' = tasks \cup {taskRow(calls[p].ctx, calls[p].columnId,
                                     calls[p].assigneeId, calls[p].position)}
    /\ Goto(p, [calls[p] EXCEPT !.pc = "log", !.taskId = NextId(tasks)])
    /\ UNCHANGED <<users, projects, members, columns, labels, taskLabels,
                   comments, invitations, activity, last>>

createTaskLog(p) ==
    /\ calls[p].pc = "log"
    /\ calls[p].op = "createTask"
    /\ Log("TASK_CREATED", calls[p].ctx, calls[p].projectId, calls[p].taskId)
    /\ Done(p)
    /\ UNCHANGED <<users, projects, members, columns, tasks, labels, taskLabels,
                   comments, invitations>>

\* inviteMember: invitation.create, activityLog.create
inviteMemberBegin(p, ctx, projectId, email) ==
    LET r == inviteMemberCheck(ctx, projectId, email) IN
    /\ calls[p] = Idle
    /\ \/ Rejected("inviteMember", ctx, r)
       \/ /\ r = OK
          /\ Goto(p, [pc |-> "create", op |-> "inviteMember", ctx |-> ctx,
                      projectId |-> projectId, email |-> email])
          /\ UNCHANGED <<store, last>>

inviteMemberCreate(p) ==
    /\ calls[p].pc = "create"
    /\ calls[p].op = "inviteMember"
    /\ invitations' = invitations \cup
          {invitationRow(calls[p].ctx, calls[p].projectId, calls[p].email)}
    /\ Goto(p, [calls[p] EXCEPT !.pc = "log"])
    /\ UNCHANGED <<users, projects, members, columns, tasks, labels, taskLabels,
                   comments, activity, last>>

inviteMemberLog(p) ==
    /\ calls[p].pc = "log"
    /\ calls[p].op = "inviteMember"
    /\ Log("MEMBER_INVITED", calls[p].ctx, calls[p].projectId, 0)
    /\ Done(p)
    /\ UNCHANGED <<users, projects, members, columns, tasks, labels, taskLabels,
                   comments, invitations>>

\* acceptInvite: projectMember.upsert, invitation.update, activityLog.create
acceptInviteBegin(p, ctx, token) ==
    LET r == acceptInviteCheck(ctx, token) IN
    /\ calls[p] = Idle
    /\ \/ Rejected("acceptInvite", ctx, r)
       \/ /\ r = OK
          /\ Goto(p, [pc |-> "upsert", op |-> "acceptInvite", ctx |-> ctx,
                      token |-> token,
                      projectId |-> (CHOOSE i \in invitations : i.token = token).projectId])
          /\ UNCHANGED <<store, last>>

acceptInviteUpsert(p) ==
    /\ calls[p].pc = "upsert"
    /\ members' = upsertMember(members, calls[p].projectId, calls[p].ctx.id)
    /\ Goto(p, [calls[p] EXCEPT !.pc = "update"])
    /\ UNCHANGED <<users, projects, columns, tasks, labels, taskLabels, comments,
                   invitations, activity, last>>

acceptInviteUpdate(p) ==
    /\ calls[p].pc = "update"
    /\ invitations' = acceptInvitation(invitations, calls[p].token)
    /\ Goto(p, [calls[p] EXCEPT !.pc = "log"])
    /\ UNCHANGED <<users, projects, members, columns, tasks, labels, taskLabels,
                   comments, activity, last>>

acceptInviteLog(p) ==
    /\ calls[p].pc = "log"
    /\ calls[p].op = "acceptInvite"
    /\ Log("INVITE_ACCEPTED", calls[p].ctx, calls[p].projectId, 0)
    /\ Done(p)
    /\ UNCHANGED <<users, projects, members, columns, tasks, labels, taskLabels,
                   comments, invitations>>

\* The call of p stops where it is: nothing it wrote is undone.
Abort(p) ==
    /\ calls[p] # Idle
    /\ last' = Response(calls[p].op, calls[p].ctx, storeError("call stopped"))
    /\ calls' = [calls EXCEPT ![p] = Idle]
    /\ UNCHANGED store

(* One call at a time, each of which may stop between two store calls *)

FailCreateProject ==
    \E ctx \in Contexts, name \in Texts :
        /\ AllIdle /\ Budget /\ Cardinality(projects) < MaxApiProjects
        /\ createProject(ctx, name)

FailCreateTaskBegin ==
    \E ctx \in Contexts, columnId \in ApiColumnArgs, title \in Texts :
        /\ AllIdle /\ Budget /\ Cardinality(tasks) < MaxApiTasks
        /\ createTaskBegin(FirstProc, ctx, columnId, title, 0)

FailInviteMemberBegin ==
    \E ctx \in Contexts, projectId \in ApiProjectArgs, email \in InviteEmails :
        /\ AllIdle /\ Budget /\ Cardinality(invitations) < MaxApiInvites
        /\ inviteMemberBegin(FirstProc, ctx, projectId, email)

FailAcceptInviteBegin ==
    \E ctx \in Contexts, token \in ApiTokenArgs :
        /\ AllIdle /\ Budget
        /\ acceptInviteBegin(FirstProc, ctx, token)

FailStep ==
    \/ createTaskFindLast(FirstProc) \/ createTaskCreate(FirstProc)
    \/ createTaskLog(FirstProc)
    \/ inviteMemberCreate(FirstProc) \/ inviteMemberLog(FirstProc)
    \/ acceptInviteUpsert(FirstProc) \/ acceptInviteUpdate(FirstProc)
    \/ acceptInviteLog(FirstProc)

FailAbort == Abort(FirstProc)

NextFail ==
    \/ FailCreateProject \/ FailCreateTaskBegin \/ FailInviteMemberBegin
    \/ FailAcceptInviteBegin \/ FailStep \/ FailAbort

SpecFail == Init /\ [][NextFail]_vars

----------------------------------------------------------------------------
(* Ordering of tasks *)

PositionsOf(rows) == {r.position : r \in rows}

Contiguous(rows) == PositionsOf(rows) = 1..Cardinality(rows)

\* C1: after any sequence of successful createTask and moveTask calls, in
\* every column the task positions are exactly 1..(number of its tasks).
C1_TaskPositionsContiguous ==
    \A c \in columns : Contiguous(tasksOf(c.id))

\* C2: after any sequence of successful createProject and createColumn
\* calls, in every project the column positions are exactly 1..(number of
\* its columns).
C2_ColumnPositionsContiguous ==
    \A p \in projects : Contiguous(columnsOf(p.id))

\* C3: a moveTask whose target column belongs to another project than the
\* task's column ends with Forbidden for every actor and every toPosition, and
\* changes no task row (column, position) and nothing else in the store.
C3_CrossProjectMoveForbidden ==
    /\ [](\A ctx \in Contexts, t \in tasks, c \in columns, toPosition \in Positions :
            getProjectIdByTaskId(t.id) # c.projectId
            => moveTaskCheck(ctx, t.id, c.id, toPosition).code = "FORBIDDEN")
    /\ [][(last'.op = "moveTask" /\ last'.code = "FORBIDDEN")
            => (tasks' = tasks /\ store' = store)]_vars

C3_Witness ==
    /\ last.op = "moveTask"
    /\ last.code = "FORBIDDEN"
    /\ last.msg = "Cannot move task across projects"
    /\ last.actor = 0
    /\ \E t \in tasks, c \in columns :
          getProjectIdByTaskId(t.id) # c.projectId /\ tasksOf(c.id) # {}

----------------------------------------------------------------------------
(* Invitations and membership *)

emailOf(ctx) == userById(ctx.id).email

SameEmail(a, b) == toLowerCase(a) = toLowerCase(b)

Authenticated == Contexts \ {NoUser}

\* C8: acceptInvite on a PENDING invitation by a non-ADMIN actor whose email
\* differs (ignoring case) from the invitation's ends with Forbidden and
\* changes nothing: the invitation stays PENDING, no membership row appears,
\* and the invited user's own acceptInvite is still accepted.
C8_WrongEmailForbidden ==
    /\ [](\A i \in invitations, ctx \in Authenticated :
            (i.status = "PENDING" /\ ctx.role # "ADMIN")
            => IF SameEmail(emailOf(ctx), i.email)
               THEN acceptInviteCheck(ctx, i.token) = OK
               ELSE acceptInviteCheck(ctx, i.token).code = "FORBIDDEN")
    /\ [][(last'.op = "acceptInvite" /\ last'.code = "FORBIDDEN")
            => (invitations' = invitations /\ members' = members /\ store' = store)]_vars

C8_Witness ==
    /\ last.op = "acceptInvite"
    /\ last.code = "FORBIDDEN"
    /\ \E i \in invitations, u \in users :
          /\ i.status = "PENDING"
          /\ u.role = "USER"
          /\ SameEmail(u.email, i.email)
          /\ u.id # last.actor
          /\ membershipOf(i.projectId, u.id) = {}

\* C9: an invitation that is not PENDING is never accepted again: for every
\* authenticated actor (the invited user and an ADMIN included) acceptInvite
\* ends with BadInput, and the invitation's status, the membership rows and
\* the activity log stay as they were.
C9_AcceptedIsTerminal ==
    /\ [](\A i \in invitations, ctx \in Authenticated :
            i.status # "PENDING"
            => acceptInviteCheck(ctx, i.token).code = "BAD_USER_INPUT")
    /\ [][(last'.op = "acceptInvite" /\ last'.code = "BAD_USER_INPUT")
            => (invitations' = invitations /\ members' = members
                /\ activity' = activity)]_vars
    /\ [][\A i \in invitations :
            i.status # "PENDING" => \E j \in invitations' : j = i]_vars

C9_Witness ==
    /\ last.op = "acceptInvite"
    /\ last.code = "BAD_USER_INPUT"
    /\ \E i \in invitations, u \in users :
          /\ i.status = "ACCEPTED"
          /\ u.id = last.actor
          /\ (u.role = "ADMIN" \/ SameEmail(u.email, i.email))

\* C10: there is at most one ProjectMember row per (project, user); a
\* successful acceptInvite by an actor who already is a member of the
\* invitation's project adds no row.
C10_OneMembershipPerPair ==
    /\ [](\A m1, m2 \in members :
            (m1.projectId = m2.projectId /\ m1.userId = m2.userId) => m1 = m2)
    /\ [][(last'.op = "acceptInvite" /\ last'.code = "OK")
            => \A i \in invitations :
                 (i \notin invitations' /\ membershipOf(i.projectId, last'.actor) # {})
                 => members' = members]_vars

C10_Witness ==
    /\ last.op = "acceptInvite"
    /\ last.code = "OK"
    /\ Len(activity) > 0
    /\ activity[Len(activity)].action = "INVITE_ACCEPTED"
    /\ \E m \in members :
          /\ m.userId = last.actor
          /\ m.projectId = activity[Len(activity)].projectId
          /\ m.projectRole = "OWNER"

----------------------------------------------------------------------------
(* Access control and the audit trail *)

NonMembers(projectId) ==
    {ctx \in Authenticated : ctx.role # "ADMIN" /\ membershipOf(projectId, ctx.id) = {}}

tasksIn(projectId) == {t \in tasks : getProjectIdByTaskId(t.id) = projectId}

Denied(r) == r.code = "FORBIDDEN"

\* C4: an authenticated non-ADMIN actor without a membership row in an
\* existing project gets Forbidden from every query and mutation on that
\* project, its columns and its tasks, whatever the other arguments, and a
\* call that ends with Forbidden leaves the store as it was.
C4_NonMemberForbidden ==
    /\ [](\A p \in projects : \A ctx \in NonMembers(p.id) :
            /\ Denied(projectCheck(ctx, p.id))
            /\ \A page \in Pages :
                  Denied(projectPageCheck(ctx, p.id, page.offset, page.limit))
            /\ \A title \in Texts, position \in EdgePositions :
                  Denied(createColumnCheck(ctx, p.id, title, position))
            /\ \A email \in InviteEmails : Denied(inviteMemberCheck(ctx, p.id, email))
            /\ \A name \in Texts : Denied(createLabelCheck(ctx, p.id, name))
            /\ \A c \in columnsOf(p.id), title \in Texts, assigneeId \in AssigneeArgs :
                  Denied(createTaskCheck(ctx, c.id, title, assigneeId))
            /\ \A t \in tasksIn(p.id) :
                  /\ \A page \in Pages :
                        Denied(commentsCheck(ctx, t.id, page.offset, page.limit))
                  /\ \A input \in UpdateInputs : Denied(updateTaskCheck(ctx, t.id, input))
                  /\ \A c \in columns, toPosition \in EdgePositions :
                        Denied(moveTaskCheck(ctx, t.id, c.id, toPosition))
                  /\ \A assigneeId \in AssigneeArgs :
                        Denied(assignTaskCheck(ctx, t.id, assigneeId))
                  /\ \A content \in Texts : Denied(commentTaskCheck(ctx, t.id, content))
                  /\ \A labelId \in LabelArgs : Denied(taskLabelCheck(ctx, t.id, labelId)))
    /\ [][last'.code = "FORBIDDEN" => store' = store]_vars

C4_Witness ==
    /\ last.op = "addLabelToTask"
    /\ last.code = "FORBIDDEN"
    /\ last.msg = "You are not a member of this project"
    /\ \E p \in projects, t \in tasks, l \in labels, ctx \in Authenticated :
          /\ ctx.id = last.actor
          /\ ctx \in NonMembers(p.id)
          /\ t \in tasksIn(p.id)
          /\ l.projectId = p.id

MembershipRefusals == {"You are not a member of this project", "Owner only"}

\* C5: an ADMIN passes the member guard and the owner guard of every
\* project, with or without a membership row, and no call by an ADMIN ever
\* ends with a refusal for lack of membership or ownership.
C5_AdminPassesGuards ==
    /\ \A ctx \in Authenticated, projectId \in ApiProjectArgs :
          ctx.role = "ADMIN"
          => /\ requireProjectMember(ctx, projectId) = OK
             /\ requireProjectOwnerOrAdmin(ctx, projectId) = OK
    /\ (\E u \in users : u.id = last.actor /\ u.role = "ADMIN")
          => last.msg \notin MembershipRefusals

C5_Witness ==
    /\ last.op = "createColumn"
    /\ last.code = "OK"
    /\ \E u \in users : u.id = last.actor /\ u.role = "ADMIN"
    /\ projects # {}
    /\ \A m \in members : m.userId # last.actor

Tag ==
    [createProject |-> "PROJECT_CREATED", createColumn |-> "COLUMN_CREATED",
     createTask |-> "TASK_CREATED", updateTask |-> "TASK_UPDATED",
     moveTask |-> "TASK_MOVED", assignTask |-> "TASK_ASSIGNED",
     commentTask |-> "COMMENT_ADDED", inviteMember |-> "MEMBER_INVITED",
     acceptInvite |-> "INVITE_ACCEPTED", createLabel |-> "LABEL_CREATED",
     addLabelToTask |-> "LABEL_ADDED_TO_TASK",
     removeLabelFromTask |-> "LABEL_REMOVED_FROM_TASK"]

Mutations == DOMAIN Tag

\* The project a step of operation op affected is the project of the row it
\* created or changed.
AffectedProject(op, row) ==
    CASE op = "createProject" ->
            \E p \in projects' \ projects : row.projectId = p.id
      [] op = "createColumn" ->
            \E c \in columns' : c.id \notin ColumnIds /\ row.projectId = c.projectId
      [] op = "createTask" ->
            \E t \in tasks' : /\ t.id \notin TaskIds
                              /\ row.taskId = t.id
                              /\ row.projectId = getProjectIdByColumnId(t.columnId)
      [] op = "commentTask" ->
            \E c \in comments' \ comments :
                row.taskId = c.taskId /\ row.projectId = getProjectIdByTaskId(c.taskId)
      [] op = "inviteMember" ->
            \E i \in invitations' \ invitations : row.projectId = i.projectId
      [] op = "acceptInvite" ->
            \E i \in invitations \ invitations' : row.projectId = i.projectId
      [] op = "createLabel" ->
            \E l \in labels' \ labels : row.projectId = l.projectId
      [] OTHER ->
            /\ row.taskId \in TaskIds
            /\ row.projectId = getProjectIdByTaskId(row.taskId)
            /\ \A t \in tasks' \ tasks : getProjectIdByTaskId(t.id) = row.projectId
            /\ \A x \in (taskLabels' \ taskLabels) \cup (taskLabels \ taskLabels') :
                  x.taskId = row.taskId

\* C6: a successful mutation appends exactly one ActivityLog row, with the
\* caller as actor, the affected project as project and the operation's tag
\* as action; a call that fails appends none.
C6_OneLogRowPerMutation ==
    [][/\ (last'.op \in Mutations /\ last'.code = "OK")
          => /\ Len(activity') = Len(activity) + 1
             /\ SubSeq(activity', 1, Len(activity)) = activity
             /\ LET row == activity'[Len(activity')] IN
                /\ row.action = Tag[last'.op]
                /\ row.actorId = last'.actor
                /\ AffectedProject(last'.op, row)
       /\ last'.code # "OK" => activity' = activity]_vars

C6_Witness ==
    /\ last.op = "acceptInvite"
    /\ last.code = "OK"
    /\ Len(activity) > 0
    /\ activity[Len(activity)].action = "INVITE_ACCEPTED"
    /\ activity[Len(activity)].actorId = last.actor

----------------------------------------------------------------------------
(* Atomicity of a mutation and its audit row *)

Rows(action) == {n \in 1..Len(activity) : activity[n].action = action}

\* C7: whenever no call is in progress, entity writes and ActivityLog rows
\* correspond one to one: every task has exactly one TASK_CREATED row, every
\* invitation exactly one MEMBER_INVITED row, every accepted invitation and
\* every membership gained by an invitation its INVITE_ACCEPTED row, and
\* there are no further rows of these kinds.
C7_LogMatchesMutations ==
    AllIdle =>
        /\ \A t \in tasks :
              Cardinality({n \in Rows("TASK_CREATED") : activity[n].taskId = t.id}) = 1
        /\ Cardinality(Rows("TASK_CREATED")) = Cardinality(tasks)
        /\ Cardinality(Rows("MEMBER_INVITED")) = Cardinality(invitations)
        /\ Cardinality(Rows("INVITE_ACCEPTED"))
              = Cardinality({i \in invitations : i.status = "ACCEPTED"})
        /\ \A m \in members :
              m.projectRole = "MEMBER"
              => \E n \in Rows("INVITE_ACCEPTED") :
                    /\ activity[n].actorId = m.userId
                    /\ activity[n].projectId = m.projectId

----------------------------------------------------------------------------
(* The team of a project: membership by invitation, and what members,     *)
(* owners and administrators may do; calls run one at a time              *)

TeamEmails == {AdminEmail, UserEmail, <<"c">>}
TeamAssignees == 0..MaxUsers

TeamCreateProject ==
    \E ctx \in Contexts, name \in Texts :
        Budget /\ Cardinality(projects) < MaxApiProjects /\ createProject(ctx, name)

TeamInviteMember ==
    \E ctx \in Contexts, projectId \in ApiProjectArgs, email \in TeamEmails :
        Budget /\ Cardinality(invitations) < MaxApiInvites
               /\ inviteMember(ctx, projectId, email)

TeamAcceptInvite ==
    \E ctx \in Contexts, token \in ApiTokenArgs :
        Budget /\ acceptInvite(ctx, token)

TeamCreateTask ==
    \E ctx \in Contexts, columnId \in ApiColumnArgs, title \in Texts,
       assigneeId \in TeamAssignees :
        Budget /\ Cardinality(tasks) < MaxApiTasks
               /\ createTask(ctx, columnId, title, assigneeId)

TeamAssignTask ==
    \E ctx \in Contexts, taskId \in ApiTaskArgs, assigneeId \in TeamAssignees :
        Budget /\ assignTask(ctx, taskId, assigneeId)

TeamCreateColumn ==
    \E ctx \in Contexts, projectId \in ApiProjectArgs, title \in Texts,
       position \in EdgePositions :
        Budget /\ createColumn(ctx, projectId, title, position)

TeamCreateLabel ==
    \E ctx \in Contexts, projectId \in ApiProjectArgs, name \in Texts :
        Budget /\ Cardinality(labels) < MaxLabels /\ createLabel(ctx, projectId, name)

NextTeam ==
    \/ TeamCreateProject \/ TeamInviteMember \/ TeamAcceptInvite
    \/ TeamCreateTask \/ TeamAssignTask \/ TeamCreateColumn \/ TeamCreateLabel

SpecTeam == Init /\ [][NextTeam]_vars

----------------------------------------------------------------------------
(* Assignees *)

IsAdmin(userId) == \E u \in users : u.id = userId /\ u.role = "ADMIN"

\* C11: a task gets an assignee (from createTask or assignTask) only while
\* the assignee has a membership row in the task's project or from an ADMIN
\* actor; assignTask of a non-member by a non-ADMIN actor ends with Forbidden
\* and leaves the tasks as they were, and createTask with a non-member
\* assignee by a non-ADMIN actor creates nothing (Forbidden when its title is
\* valid).
C11_AssigneesAreMembers ==
    /\ [](\A ctx \in Authenticated, t \in tasks, a \in TeamAssignees \ {0} :
            (ctx.role # "ADMIN" /\ membershipOf(getProjectIdByTaskId(t.id), a) = {})
            => assignTaskCheck(ctx, t.id, a).code = "FORBIDDEN")
    /\ [](\A ctx \in Authenticated, c \in columns, title \in Texts,
             a \in TeamAssignees \ {0} :
            (ctx.role # "ADMIN" /\ membershipOf(c.projectId, a) = {})
            => /\ createTaskCheck(ctx, c.id, title, a) # OK
               /\ Len(trim(title)) >= 1
                     => createTaskCheck(ctx, c.id, title, a).code = "FORBIDDEN")
    /\ [][\A t \in tasks' :
            (/\ t.assigneeId # 0
             /\ ~\E s \in tasks : s.id = t.id /\ s.assigneeId = t.assigneeId)
            => \/ membershipOf(columnById(t.columnId).projectId, t.assigneeId) # {}
               \/ IsAdmin(last'.actor)]_vars
    /\ [][(last'.op = "assignTask" /\ last'.code = "FORBIDDEN") => tasks' = tasks]_vars

C11_Witness ==
    /\ last.op = "assignTask"
    /\ last.code = "FORBIDDEN"
    /\ last.msg = "Assignee must be a project member"
    /\ ~IsAdmin(last.actor)
    /\ \E t \in tasks :
          /\ t.assigneeId # 0
          /\ membershipOf(getProjectIdByTaskId(t.id), last.actor) # {}
          /\ \E u \in users :
                membershipOf(getProjectIdByTaskId(t.id), u.id) = {}

----------------------------------------------------------------------------
(* Owner-only operations *)

OwnerOnly == {"createColumn", "inviteMember", "createLabel"}

PlainMembers(projectId) ==
    {ctx \in Authenticated :
        /\ ctx.role # "ADMIN"
        /\ \E m \in membershipOf(projectId, ctx.id) : m.projectRole = "MEMBER"}

OwnersAndAdmins(projectId) ==
    {ctx \in Authenticated :
        \/ ctx.role = "ADMIN"
        \/ \E m \in membershipOf(projectId, ctx.id) : m.projectRole = "OWNER"}

\* C17: createColumn, inviteMember and createLabel succeed only for an ADMIN
\* or an OWNER of the project; a non-ADMIN actor whose membership role is
\* MEMBER gets Forbidden from each of them, whatever the other arguments, and
\* a Forbidden call creates no column, invitation, label or log row.
C17_OwnerOnly ==
    /\ [](\A p \in projects, ctx \in Contexts, text \in Texts \cup TeamEmails,
             position \in EdgePositions :
            /\ ctx \notin OwnersAndAdmins(p.id)
                  => /\ createColumnCheck(ctx, p.id, text, position) # OK
                     /\ inviteMemberCheck(ctx, p.id, text) # OK
                     /\ createLabelCheck(ctx, p.id, text) # OK
            /\ ctx \in PlainMembers(p.id)
                  => /\ createColumnCheck(ctx, p.id, text, position).code = "FORBIDDEN"
                     /\ inviteMemberCheck(ctx, p.id, text).code = "FORBIDDEN"
                     /\ createLabelCheck(ctx, p.id, text).code = "FORBIDDEN")
    /\ [][(last'.op \in OwnerOnly /\ last'.code = "FORBIDDEN")
            => /\ columns' = columns
               /\ invitations' = invitations
               /\ labels' = labels
               /\ activity' = activity]_vars

C17_Witness ==
    /\ last.op = "createLabel"
    /\ last.code = "FORBIDDEN"
    /\ last.msg = "Owner only"
    /\ \E p \in projects : \E ctx \in PlainMembers(p.id) : ctx.id = last.actor

----------------------------------------------------------------------------
(* Range of the position arguments *)

\* C12: moveTask ends with BadInput, and changes no task, for every
\* toPosition that is not in 1..(number of tasks in the target column + 1),
\* whenever the call passes its lookups and guards.
C12_MoveRejectsOutOfRange ==
    /\ [](\A ctx \in Contexts, t \in tasks, c \in columns, toPosition \in Positions :
            (/\ moveTaskCheck(ctx, t.id, c.id, 1) = OK
             /\ (toPosition < 1 \/ toPosition > Cardinality(tasksOf(c.id)) + 1))
            => moveTaskCheck(ctx, t.id, c.id, toPosition).code = "BAD_USER_INPUT")
    /\ [][(last'.op = "moveTask" /\ last'.code = "BAD_USER_INPUT")
            => tasks' = tasks]_vars

\* C13: createColumn ends with BadInput, and changes no column, for every
\* position that is not in 1..(number of columns in the project + 1),
\* whenever the call passes its guard and the title is valid.
C13_CreateColumnRejectsOutOfRange ==
    /\ [](\A ctx \in Contexts, p \in projects, title \in Texts,
             position \in ColumnPositions :
            (/\ createColumnCheck(ctx, p.id, title, 1) = OK
             /\ (position < 1 \/ position > Cardinality(columnsOf(p.id)) + 1))
            => createColumnCheck(ctx, p.id, title, position).code = "BAD_USER_INPUT")
    /\ [][(last'.op = "createColumn" /\ last'.code = "BAD_USER_INPUT")
            => columns' = columns]_vars

----------------------------------------------------------------------------
(* Effect of a move between two columns *)

\* C14: a successful moveTask of task t from column A to another column B of
\* the same project at a position P in 1..|B|+1 stores t in B at P, raises by
\* one the tasks of B that were at P or after and leaves the others of B,
\* lowers by one the tasks of A that were after t and leaves those before t.
C14_MoveAcrossColumns ==
    /\ [](\A t \in tasks, b \in columns, P \in Positions :
            (/\ b.id # t.columnId
             /\ b.projectId = getProjectIdByTaskId(t.id)
             /\ 1 <= P
             /\ P <= Cardinality(tasksOf(b.id)) + 1)
            => \A after \in moveResults(tasks, t.id, b.id, P) :
                 /\ \E m \in after : m.id = t.id /\ m.columnId = b.id /\ m.position = P
                 /\ \A u \in tasksOf(b.id) : \E v \in after :
                       /\ v.id = u.id
                       /\ v.columnId = b.id
                       /\ v.position = IF u.position >= P THEN u.position + 1
                                                          ELSE u.position
                 /\ \A u \in tasksOf(t.columnId) \ {t} : \E v \in after :
                       /\ v.id = u.id
                       /\ v.columnId = t.columnId
                       /\ v.position = IF u.position > t.position THEN u.position - 1
                                                                   ELSE u.position)
    /\ [][(last'.op = "moveTask" /\ last'.code = "OK")
            => \E t \in tasks, c \in columns, P \in Positions :
                  tasks' \in moveResults(tasks, t.id, c.id, P)]_vars

----------------------------------------------------------------------------
(* moveTask, store call by store call: updateMany (shift), update (place), *)
(* findMany (read the column the task came from), one update per row read, *)
(* activityLog.create, return.  None of them runs inside a transaction.    *)

MaxMoveTasks == 2

MoveColumnArgs == 1..2
MovePositions == 1..2
MoveTaskArgs == 1..MaxMoveTasks

InProgress(p) == calls[p] # Idle

\* The task table when the earliest call still in progress began.
Baseline(p) ==
    IF \E q \in Procs \ {p} : InProgress(q) /\ calls[q].op = "moveTask"
    THEN calls[CHOOSE q \in Procs \ {p} : InProgress(q) /\ calls[q].op = "moveTask"].before
    ELSE tasks

moveTaskBegin(p, ctx, taskId, toColumnId, toPosition) ==
    LET r == moveTaskCheck(ctx, taskId, toColumnId, toPosition) IN
    /\ calls[p] = Idle
    /\ \/ Rejected("moveTask", ctx, r)
       \/ /\ r = OK
          /\ Goto(p, [pc |-> "shift", op |-> "moveTask", ctx |-> ctx,
                      taskId |-> taskId, toColumnId |-> toColumnId,
                      toPosition |-> toPosition,
                      columnId |-> taskById(taskId).columnId,
                      projectId |-> getProjectIdByTaskId(taskId),
                      order |-> <<>>, pending |-> {}, before |-> Baseline(p),
                      logged |-> Len(activity)])
          /\ UNCHANGED <<store, last>>

moveTaskShift(p) ==
    /\ InProgress(p)
    /\ calls[p].pc = "shift"
    /\ tasks' = shiftTasks(tasks, calls[p].toColumnId, calls[p].toPosition)
    /\ Goto(p, [calls[p] EXCEPT !.pc = "place"])
    /\ UNCHANGED <<users, projects, members, columns, labels, taskLabels,
                   comments, invitations, activity, last>>

moveTaskPlace(p) ==
    /\ InProgress(p)
    /\ calls[p].pc = "place"
    /\ tasks' = placeTask(tasks, calls[p].taskId, calls[p].toColumnId,
                          calls[p].toPosition)
    /\ Goto(p, [calls[p] EXCEPT !.pc = "find"])
    /\ UNCHANGED <<users, projects, members, columns, labels, taskLabels,
                   comments, invitations, activity, last>>

moveTaskFind(p) ==
    /\ InProgress(p)
    /\ calls[p].pc = "find"
    /\ \E order \in sourceTasks(tasks, calls[p].columnId) :
          Goto(p, [calls[p] EXCEPT !.pc = IF Len(order) = 0 THEN "log" ELSE "renumber",
                                   !.order = order,
                                   !.pending = 1..Len(order)])
    /\ UNCHANGED <<store, last>>

\* One of the updates that Promise.all has in flight.
moveTaskRenumber(p) ==
    /\ InProgress(p)
    /\ calls[p].pc = "renumber"
    /\ \E idx \in calls[p].pending :
          /\ tasks' = {IF t.id = calls[p].order[idx]
                       THEN [t EXCEPT !.position = idx] ELSE t : t \in tasks}
          /\ Goto(p, [calls[p] EXCEPT
                        !.pc = IF calls[p].pending = {idx} THEN "log" ELSE "renumber",
                        !.pending = @ \ {idx}])
    /\ UNCHANGED <<users, projects, members, columns, labels, taskLabels,
                   comments, invitations, activity, last>>

moveTaskLog(p) ==
    /\ InProgress(p)
    /\ calls[p].pc = "log"
    /\ calls[p].op = "moveTask"
    /\ Log("TASK_MOVED", calls[p].ctx, calls[p].projectId, calls[p].taskId)
    /\ Goto(p, [calls[p] EXCEPT !.pc = "return"])
    /\ UNCHANGED <<users, projects, members, columns, tasks, labels, taskLabels,
                   comments, invitations, last>>

moveTaskReturn(p) ==
    /\ InProgress(p)
    /\ calls[p].pc = "return"
    /\ Done(p)
    /\ UNCHANGED store

(* One moveTask at a time, which may stop between two store calls *)

MoveFailCreateProject ==
    \E ctx \in BoardActors, name \in Texts :
        /\ AllIdle /\ Budget /\ Cardinality(projects) < MaxApiProjects
        /\ createProject(ctx, name)

MoveFailCreateTask ==
    \E ctx \in BoardActors, columnId \in MoveColumnArgs, title \in Texts :
        /\ AllIdle /\ Budget /\ Cardinality(tasks) < MaxMoveTasks
        /\ createTask(ctx, columnId, title, 0)

MoveFailBegin ==
    \E ctx \in BoardActors, taskId \in MoveTaskArgs, toColumnId \in MoveColumnArgs,
       toPosition \in MovePositions :
        /\ AllIdle /\ Budget
        /\ \A t \in tasks : t.position <= MaxPos
        /\ moveTaskBegin(FirstProc, ctx, taskId, toColumnId, toPosition)

MoveFailShift == moveTaskShift(FirstProc)
MoveFailPlace == moveTaskPlace(FirstProc)
MoveFailFind == moveTaskFind(FirstProc)
MoveFailRenumber == moveTaskRenumber(FirstProc)
MoveFailLog == moveTaskLog(FirstProc)
MoveFailReturn == moveTaskReturn(FirstProc)
MoveFailAbort == Abort(FirstProc)

NextMoveFail ==
    \/ MoveFailCreateProject \/ MoveFailCreateTask \/ MoveFailBegin
    \/ MoveFailShift \/ MoveFailPlace \/ MoveFailFind \/ MoveFailRenumber
    \/ MoveFailLog \/ MoveFailReturn \/ MoveFailAbort

SpecMoveFail == Init /\ [][NextMoveFail]_vars

(* Two moveTask calls whose store calls interleave; every call runs to its end *)

\* Calls overlap in pairs: a call begins when no call is in progress, or
\* while one call is in progress and no call has ended since that one began.
Overlaps(p) ==
    \A q \in Procs \ {p} : InProgress(q) => calls[q].logged = Len(activity)

RaceCreateProject ==
    \E ctx \in BoardActors, name \in Texts :
        /\ AllIdle /\ Budget /\ Cardinality(projects) < MaxApiProjects
        /\ createProject(ctx, name)

RaceCreateTask ==
    \E ctx \in BoardActors, columnId \in MoveColumnArgs, title \in Texts :
        /\ AllIdle /\ Budget /\ Cardinality(tasks) < MaxMoveTasks
        /\ createTask(ctx, columnId, title, 0)

RaceBegin ==
    \E p \in Procs, ctx \in BoardActors, taskId \in MoveTaskArgs,
       toColumnId \in MoveColumnArgs, toPosition \in MovePositions :
        /\ Len(activity) + Cardinality({q \in Procs : InProgress(q)}) < MaxLog
        /\ Overlaps(p)
        /\ moveTaskBegin(p, ctx, taskId, toColumnId, toPosition)

RaceShift == \E p \in Procs : moveTaskShift(p)
RacePlace == \E p \in Procs : moveTaskPlace(p)
RaceFind == \E p \in Procs : moveTaskFind(p)
RaceRenumber == \E p \in Procs : moveTaskRenumber(p)
RaceLog == \E p \in Procs : moveTaskLog(p)
RaceReturn == \E p \in Procs : moveTaskReturn(p)

NextMoveRace ==
    \/ RaceCreateProject \/ RaceCreateTask \/ RaceBegin
    \/ RaceShift \/ RacePlace \/ RaceFind \/ RaceRenumber \/ RaceLog \/ RaceReturn

SpecMoveRace == Init /\ [][NextMoveRace]_vars

----------------------------------------------------------------------------
(* Atomicity and isolation of a move *)

\* C15: a moveTask call that is stopped after one of its store writes and
\* before its audit append leaves every task in the column and at the
\* position it had when the call began.
C15_StoppedMoveLeavesPositions ==
    [][\A p \in Procs :
        (/\ InProgress(p)
         /\ calls[p].op = "moveTask"
         /\ calls[p].pc # "return"
         /\ calls'[p] = Idle
         /\ last'.code # "OK")
        => tasks' = calls[p].before]_vars

BothReturning ==
    \A p \in Procs : InProgress(p) /\ calls[p].op = "moveTask" /\ calls[p].pc = "return"

Then(rowSets, call) ==
    UNION {moveResults(rows, call.taskId, call.toColumnId, call.toPosition) :
             rows \in rowSets}

\* The task tables that the calls a and b produce from rows when one runs
\* after the other, in either order.
Serial(rows, a, b) == Then(Then({rows}, a), b) \cup Then(Then({rows}, b), a)

Touched(call) == {call.columnId, call.toColumnId}

\* C16: when two moveTask calls that touch a common column, and whose store
\* calls interleaved, have both made all their writes, the task table is one
\* that the two calls produce when run one after the other in one of the two
\* orders (so that columns that are contiguous after either order are
\* contiguous now).
C16_MovesSerialize ==
    LET p == FirstProc
        q == CHOOSE r \in Procs : r # p
    IN (BothReturning /\ Touched(calls[p]) \cap Touched(calls[q]) # {})
          => tasks \in Serial(calls[p].before, calls[p], calls[q])

----------------------------------------------------------------------------
(* Calls without an actor *)

\* What every guarded operation answers to a caller without an actor, for
\* the arguments of the whole-API specification.
NoActorAnswers ==
    {meCheck(NoUser)}
    \cup {projectsCheck(NoUser, pg.offset, pg.limit, search) :
            pg \in Pages, search \in Searches}
    \cup {createProjectCheck(NoUser, name) : name \in Texts}
    \cup {projectCheck(NoUser, projectId) : projectId \in ApiProjectArgs}
    \cup {projectPageCheck(NoUser, projectId, pg.offset, pg.limit) :
            projectId \in ApiProjectArgs, pg \in Pages}
    \cup {createColumnCheck(NoUser, projectId, title, position) :
            projectId \in ApiProjectArgs, title \in Texts, position \in EdgePositions}
    \cup {inviteMemberCheck(NoUser, projectId, email) :
            projectId \in ApiProjectArgs, email \in InviteEmails}
    \cup {createLabelCheck(NoUser, projectId, name) :
            projectId \in ApiProjectArgs, name \in Texts}
    \cup {acceptInviteCheck(NoUser, token) : token \in ApiTokenArgs}
    \cup {commentTaskCheck(NoUser, taskId, content) :
            taskId \in ApiTaskArgs, content \in Texts}

TaskAnswers(taskId) ==
    {commentsCheck(NoUser, taskId, pg.offset, pg.limit) : pg \in Pages}
    \cup {updateTaskCheck(NoUser, taskId, input) : input \in UpdateInputs}
    \cup {assignTaskCheck(NoUser, taskId, assigneeId) : assigneeId \in AssigneeArgs}
    \cup {taskLabelCheck(NoUser, taskId, labelId) : labelId \in LabelArgs}

ColumnAnswers(columnId) ==
    {createTaskCheck(NoUser, columnId, title, assigneeId) :
        title \in Texts, assigneeId \in AssigneeArgs}

MoveAnswers(taskId, toColumnId) ==
    {moveTaskCheck(NoUser, taskId, toColumnId, toPosition) :
        toPosition \in EdgePositions}

\* C18 as stated: every operation other than register and login answers
\* Unauthenticated to a caller without an actor, whatever its arguments.
C18_NoActorUnauthenticated ==
    /\ NoActorAnswers \subseteq {unauthenticated}
    /\ \A taskId \in ApiTaskArgs : TaskAnswers(taskId) \subseteq {unauthenticated}
    /\ \A columnId \in ApiColumnArgs : ColumnAnswers(columnId) \subseteq {unauthenticated}
    /\ \A taskId \in ApiTaskArgs, toColumnId \in ApiColumnArgs :
          MoveAnswers(taskId, toColumnId) \subseteq {unauthenticated}

\* C18, amended: a call without an actor never succeeds and never changes
\* the store.  It ends with Unauthenticated whenever the task and column ids
\* it is given resolve (and, for moveTask, the task and the target column are
\* of one project); an operation that resolves a task or column id before its
\* guard ends with NotFound when the id does not resolve, and a moveTask
\* across projects ends with Forbidden.
C18_NoActorNeverSucceeds ==
    /\ [](/\ NoActorAnswers \subseteq {unauthenticated}
          /\ \A taskId \in ApiTaskArgs :
                TaskAnswers(taskId) \subseteq
                   {IF taskId \in TaskIds THEN unauthenticated
                                          ELSE notFound("Task not found")}
          /\ \A columnId \in ApiColumnArgs :
                ColumnAnswers(columnId) \subseteq
                   {IF columnId \in ColumnIds THEN unauthenticated
                                              ELSE notFound("Column not found")}
          /\ \A taskId \in ApiTaskArgs, toColumnId \in ApiColumnArgs :
                MoveAnswers(taskId, toColumnId) \subseteq
                   {IF taskId \notin TaskIds THEN notFound("Task not found")
                    ELSE IF toColumnId \notin ColumnIds THEN notFound("Column not found")
                    ELSE IF getProjectIdByTaskId(taskId) # getProjectIdByColumnId(toColumnId)
                         THEN forbidden("Cannot move task across projects")
                    ELSE unauthenticated})
    /\ [][last'.actor = 0 => (last'.code # "OK" /\ store' = store)]_vars

C18_Witness ==
    /\ last.actor = 0
    /\ last.op = "moveTask"
    /\ last.code = "UNAUTHENTICATED"
    /\ tasks # {}

----------------------------------------------------------------------------
(* Creation of a project *)

OwnerRows(projectId) ==
    {m \in members : m.projectId = projectId /\ m.projectRole = "OWNER"}

CreatedRows(projectId) ==
    {n \in Rows("PROJECT_CREATED") : activity[n].projectId = projectId}

\* C19: a successful createProject adds, in one step, one project owned by
\* the actor, one membership row (the actor, OWNER), three columns at 1, 2, 3
\* and one PROJECT_CREATED row; in every state, calls stopped half-way
\* included, every project has all of them and none of them exists without
\* its project.
C19_ProjectCreatedWhole ==
    /\ [](/\ \A p \in projects :
                /\ OwnerRows(p.id) = membershipOf(p.id, p.ownerId)
                /\ Cardinality(OwnerRows(p.id)) = 1
                /\ Cardinality(columnsOf(p.id)) = DefaultColumnCount
                /\ PositionsOf(columnsOf(p.id)) = 1..DefaultColumnCount
                /\ Cardinality(CreatedRows(p.id)) = 1
                /\ \A n \in CreatedRows(p.id) : activity[n].actorId = p.ownerId
          /\ \A m \in members : m.projectId \in ProjectIds
          /\ \A c \in columns : c.projectId \in ProjectIds
          /\ \A n \in Rows("PROJECT_CREATED") : activity[n].projectId \in ProjectIds)
    /\ [][projects' # projects
            => /\ last'.op = "createProject" /\ last'.code = "OK"
               /\ projects \subseteq projects'
               /\ Cardinality(projects' \ projects) = 1
               /\ \A p \in projects' \ projects : p.ownerId = last'.actor
               /\ Cardinality(members' \ members) = 1
               /\ Cardinality(columns' \ columns) = DefaultColumnCount
               /\ Len(activity') = Len(activity) + 1]_vars

C19_Witness ==
    /\ last.op = "createProject"
    /\ last.code = "OK"
    /\ \E p \in projects :
          /\ p.ownerId = last.actor
          /\ Cardinality(columnsOf(p.id)) = DefaultColumnCount
          /\ OwnerRows(p.id) # {}

----------------------------------------------------------------------------
(* Listing projects: createProject, invitations and the two queries of the *)
(* caller's own data, calls run one at a time                              *)

MaxListed == 3

ListOffsets == (0 - 1)..(MaxListed + 1)
ListLimits == {0, 1, 2, MaxLimit, MaxLimit + 1}
NoSearch == [has |-> FALSE, text |-> <<>>]

ListCreateProject ==
    \E ctx \in Contexts, name \in Texts :
        Budget /\ Cardinality(projects) < MaxListed /\ createProject(ctx, name)

ListInviteMember ==
    \E ctx \in Contexts, projectId \in ProjectArgs, email \in TeamEmails :
        Budget /\ Cardinality(invitations) < MaxApiInvites
               /\ inviteMember(ctx, projectId, email)

ListAcceptInvite ==
    \E ctx \in Contexts, token \in ApiTokenArgs :
        Budget /\ acceptInvite(ctx, token)

ListMe == \E ctx \in Contexts : Budget /\ me(ctx)

ListProjects ==
    \E ctx \in Contexts, offset \in ListOffsets, limit \in ListLimits,
       search \in Searches :
        Budget /\ projectsQuery(ctx, offset, limit, search)

NextList ==
    ListCreateProject \/ ListInviteMember \/ ListAcceptInvite \/ ListMe \/ ListProjects

SpecList == Init /\ [][NextList]_vars

Min(a, b) == IF a < b THEN a ELSE b
Max(a, b) == IF a < b THEN b ELSE a

Visible(ctx) ==
    {p \in projects :
        \/ IsAdmin(ctx.id)
        \/ \E m \in members : m.projectId = p.id /\ m.userId = ctx.id}

\* C20: for an authenticated actor, projects(offset, limit) ends with
\* BadInput when limit is outside 1..50 or offset is negative; otherwise it
\* returns, as total, the number of projects visible to the actor (all of
\* them for an ADMIN, those with a membership row of the actor otherwise) and
\* min(limit, max(0, total - offset)) distinct visible projects as items.
C20_ProjectsPage ==
    \A ctx \in Authenticated, offset \in ListOffsets, limit \in ListLimits :
        LET r == projectsCheck(ctx, offset, limit, NoSearch)
            res == projectsResult(ctx, offset, limit, NoSearch)
        IN IF limit < 1 \/ limit > 50 \/ offset < 0
           THEN r.code = "BAD_USER_INPUT"
           ELSE /\ r = OK
                /\ res.total = Cardinality(Visible(ctx))
                /\ Len(res.items) = Min(limit, Max(0, res.total - offset))
                /\ \A i \in DOMAIN res.items : res.items[i] \in Visible(ctx)
                /\ \A i, j \in DOMAIN res.items : i # j => res.items[i] # res.items[j]

C20_Witness ==
    /\ last.op = "projects"
    /\ last.code = "OK"
    /\ ~IsAdmin(last.actor)
    /\ \E p, q \in projects :
          /\ membershipOf(p.id, last.actor) = {}
          /\ \E m \in membershipOf(q.id, last.actor) : m.projectRole = "MEMBER"

----------------------------------------------------------------------------
(* Registration, store call by store call: the validation and findUnique,  *)
(* then user.create, which the unique index User_email_key rejects when a  *)
(* row with the email exists.  The store calls of two calls interleave.    *)

MaxRegistered == 2

RegisterEmails ==
    {<<" ", "C", "@", "X">>, <<"c", "@", "x">>, <<"B", "@", "x", " ">>,
     <<"d", "@", "x">>, <<"c">>}

registerBegin(p, email, password, displayName) ==
    LET r == registerCheck(email, password, displayName) IN
    /\ calls[p] = Idle
    /\ \/ Rejected("register", NoUser, r)
       \/ /\ r = OK
          /\ Goto(p, [pc |-> "create", op |-> "register", ctx |-> NoUser,
                      email |-> toLowerCase(trim(email))])
          /\ UNCHANGED <<store, last>>

registerCreate(p) ==
    /\ calls[p].pc = "create"
    /\ calls[p].op = "register"
    /\ IF \E u \in users : u.email = calls[p].email
       THEN /\ last' = Response("register", NoUser, storeError("User_email_key"))
            /\ calls' = [calls EXCEPT ![p] = Idle]
            /\ UNCHANGED store
       ELSE /\ users' = users \cup {[id |-> NextId(users), email |-> calls[p].email,
                                     role |-> "USER"]}
            /\ Done(p)
            /\ UNCHANGED <<projects, members, columns, tasks, labels, taskLabels,
                           comments, invitations, activity>>

RegisterBegin ==
    \E p \in Procs, email \in RegisterEmails, password \in {Password, <<"p">>},
       displayName \in Texts :
        /\ Cardinality(users) < 2 + MaxRegistered
        /\ registerBegin(p, email, password, displayName)

RegisterCreate == \E p \in Procs : registerCreate(p)

RegisterCreateProject ==
    \E ctx \in Contexts, name \in Texts :
        Budget /\ Cardinality(projects) < MaxApiProjects /\ createProject(ctx, name)

NextRegister == RegisterBegin \/ RegisterCreate \/ RegisterCreateProject

SpecRegister == Init /\ [][NextRegister]_vars

\* C21: register with an email that, trimmed and lower-cased, is the email
\* of an existing user ends with BadInput and adds no user; no two users have
\* the same email; every user that register adds has the global role USER.
C21_RegisterUniqueEmail ==
    /\ [](/\ \A email \in RegisterEmails, password \in {Password, <<"p">>},
                displayName \in Texts :
                (\E u \in users : u.email = toLowerCase(trim(email)))
                => registerCheck(email, password, displayName).code = "BAD_USER_INPUT"
          /\ \A u, v \in users : u.email = v.email => u = v)
    /\ [][/\ (last'.op = "register" /\ last'.code = "BAD_USER_INPUT") => users' = users
          /\ \A u \in users' \ users : u.role = "USER" /\ last'.op = "register"]_vars

C21_Witness ==
    /\ last.op = "register"
    /\ last.code = "BAD_USER_INPUT"
    /\ last.msg = "Email already registered"
    /\ \E u \in users : u.id > 2 /\ u.role = "USER" /\ u.email = <<"c", "@", "x">>

----------------------------------------------------------------------------
(* Labels on tasks: createProject, createTask, createLabel, addLabelToTask *)
(* and removeLabelFromTask, calls run one at a time                        *)

MaxLabelLog == 7
MaxLabelTasks == 2
MaxLabelRows == 2

LabelNames == {<<"T">>, <<"b">>, <<" ">>}
LabelTaskArgs == 1..(MaxLabelTasks + 1)
LabelIdArgs == 1..(MaxLabelRows + 1)
LabelBudget == Len(activity) < MaxLabelLog

LabelsCreateProject ==
    \E ctx \in BoardActors, name \in Texts :
        LabelBudget /\ Cardinality(projects) < MaxApiProjects /\ createProject(ctx, name)

LabelsCreateTask ==
    \E ctx \in BoardActors, columnId \in 1..2, title \in Texts :
        LabelBudget /\ Cardinality(tasks) < MaxLabelTasks
                    /\ createTask(ctx, columnId, title, 0)

LabelsCreateLabel ==
    \E ctx \in BoardActors, projectId \in ApiProjectArgs, name \in LabelNames :
        LabelBudget /\ Cardinality(labels) < MaxLabelRows
                    /\ createLabel(ctx, projectId, name)

LabelsAddLabelToTask ==
    \E ctx \in Contexts, taskId \in LabelTaskArgs, labelId \in LabelIdArgs :
        LabelBudget /\ addLabelToTask(ctx, taskId, labelId)

LabelsRemoveLabelFromTask ==
    \E ctx \in Contexts, taskId \in LabelTaskArgs, labelId \in LabelIdArgs :
        LabelBudget /\ removeLabelFromTask(ctx, taskId, labelId)

NextLabels ==
    \/ LabelsCreateProject \/ LabelsCreateTask \/ LabelsCreateLabel
    \/ LabelsAddLabelToTask \/ LabelsRemoveLabelFromTask

SpecLabels == Init /\ [][NextLabels]_vars

\* The label set of a task.
labelSet(rows, taskId) == {x.labelId : x \in {y \in rows : y.taskId = taskId}}

Links(rows, taskId, labelId) ==
    {x \in rows : x.taskId = taskId /\ x.labelId = labelId}

\* The links of rows as (task, label) pairs; a row's id is an opaque key.
Pairs(rows) == {<<x.taskId, x.labelId>> : x \in rows}

\* C22: for a task and a label of one project, addLabelToTask puts the label
\* in the task's label set; a second addLabelToTask changes nothing, so that
\* a (task, label) pair never has more than one link; removeLabelFromTask
\* after addLabelToTask gives a label set without the label and leaves every
\* other link as it was.
C22_LabelSetLaws ==
    /\ [](/\ \A x, y \in taskLabels :
                (x.taskId = y.taskId /\ x.labelId = y.labelId) => x = y
          /\ \A t \in tasks, l \in labels :
                l.projectId = getProjectIdByTaskId(t.id)
                => LET added == upsertTaskLabel(taskLabels, t.id, l.id)
                       twice == upsertTaskLabel(added, t.id, l.id)
                       removed == deleteTaskLabels(added, t.id, l.id)
                   IN /\ \A ctx \in Contexts :
                            requireProjectMember(ctx, l.projectId) = OK
                            => taskLabelCheck(ctx, t.id, l.id) = OK
                      /\ l.id \in labelSet(added, t.id)
                      /\ Cardinality(Links(added, t.id, l.id)) = 1
                      /\ twice = added
                      /\ l.id \notin labelSet(removed, t.id)
                      /\ removed = taskLabels \ Links(taskLabels, t.id, l.id)
                      /\ added \ Links(added, t.id, l.id) = removed)
    /\ [][/\ (last'.op = "addLabelToTask" /\ last'.code = "OK")
             => \E t \in tasks, l \in labels :
                   /\ l.projectId = getProjectIdByTaskId(t.id)
                   /\ taskLabels' = upsertTaskLabel(taskLabels, t.id, l.id)
          /\ (last'.op = "removeLabelFromTask" /\ last'.code = "OK")
             => \E t \in tasks, l \in labels :
                   /\ l.projectId = getProjectIdByTaskId(t.id)
                   /\ taskLabels' = deleteTaskLabels(taskLabels, t.id, l.id)]_vars

C22_Witness ==
    /\ last.op = "removeLabelFromTask"
    /\ last.code = "OK"
    /\ Cardinality(Pairs(taskLabels)) = 1
    /\ \E n, k \in DOMAIN activity :
          /\ n < k
          /\ activity[n].action = "LABEL_ADDED_TO_TASK"
          /\ activity[k].action = "LABEL_ADDED_TO_TASK"
          /\ activity[Len(activity)].action = "LABEL_REMOVED_FROM_TASK"

----------------------------------------------------------------------------
(* Ids that do not resolve *)

\* What the operations that resolve a task id before their guard answer to
\* ctx for taskId.
TaskLookupAnswers(ctx, taskId) ==
    {commentsCheck(ctx, taskId, pg.offset, pg.limit) : pg \in Pages}
    \cup {updateTaskCheck(ctx, taskId, input) : input \in UpdateInputs}
    \cup {assignTaskCheck(ctx, taskId, assigneeId) : assigneeId \in AssigneeArgs}
    \cup {taskLabelCheck(ctx, taskId, labelId) : labelId \in LabelArgs}
    \cup {moveTaskCheck(ctx, taskId, toColumnId, toPosition) :
            toColumnId \in ApiColumnArgs, toPosition \in EdgePositions}

\* What the operations that take a column id answer to ctx for columnId.
ColumnLookupAnswers(ctx, columnId) ==
    {createTaskCheck(ctx, columnId, title, assigneeId) :
        title \in Texts, assigneeId \in AssigneeArgs}
    \cup {moveTaskCheck(ctx, taskId, columnId, toPosition) :
            taskId \in TaskIds, toPosition \in EdgePositions}

CommentTaskAnswers(ctx, taskId) ==
    {commentTaskCheck(ctx, taskId, content) : content \in Texts}

Codes(answers) == {r.code : r \in answers}

\* C23 as stated: createTask, updateTask, moveTask, assignTask, commentTask,
\* comments, addLabelToTask and removeLabelFromTask end with NotFound for a
\* task id or column id that does not resolve, for every actor and for a
\* caller without an actor.
C23_UnresolvedIdNotFound ==
    \A ctx \in Contexts :
        /\ \A taskId \in ApiTaskArgs \ TaskIds :
              Codes(TaskLookupAnswers(ctx, taskId) \cup CommentTaskAnswers(ctx, taskId))
                 \subseteq {"NOT_FOUND"}
        /\ \A columnId \in ApiColumnArgs \ ColumnIds :
              Codes(ColumnLookupAnswers(ctx, columnId)) \subseteq {"NOT_FOUND"}

\* C23, amended: createTask, updateTask, moveTask, assignTask, comments,
\* addLabelToTask and removeLabelFromTask end with NotFound for a task id or
\* column id that does not resolve, for every actor and for a caller without
\* an actor; commentTask ends with NotFound for every actor and with
\* Unauthenticated for a caller without an actor; a call that ends with
\* NotFound changes nothing in the store.
C23_UnresolvedIdNotFoundButCommentTask ==
    /\ [](\A ctx \in Contexts :
            /\ \A taskId \in ApiTaskArgs \ TaskIds :
                  /\ Codes(TaskLookupAnswers(ctx, taskId)) \subseteq {"NOT_FOUND"}
                  /\ Codes(CommentTaskAnswers(ctx, taskId)) \subseteq
                        {IF ctx = NoUser THEN "UNAUTHENTICATED" ELSE "NOT_FOUND"}
            /\ \A columnId \in ApiColumnArgs \ ColumnIds :
                  Codes(ColumnLookupAnswers(ctx, columnId)) \subseteq {"NOT_FOUND"})
    /\ [][last'.code = "NOT_FOUND" => store' = store]_vars

C23_Witness ==
    /\ last.code = "NOT_FOUND"
    /\ last.op = "moveTask"
    /\ last.msg = "Column not found"
    /\ last.actor = 0
    /\ tasks # {}

----------------------------------------------------------------------------
(* Failed calls *)

ErrorKinds == {"UNAUTHENTICATED", "FORBIDDEN", "BAD_USER_INPUT", "NOT_FOUND"}

\* C24: a call of any operation that ends with Unauthenticated, Forbidden,
\* BadInput or NotFound leaves every table of the store as it was before the
\* call.
C24_FailedCallsWriteNothing ==
    [][last'.code \in ErrorKinds => store' = store]_vars

C24_Witness ==
    /\ last.code = "BAD_USER_INPUT"
    /\ last.op = "createColumn"
    /\ last.msg = "Invalid position"
    /\ last.actor # 0
    /\ projects # {}

----------------------------------------------------------------------------
(* Effect of a move within one column *)

\* The two-step move of the specification within one column: take the task
\* out and close the gap, then raise the tasks at toPosition or after by one
\* and put the task at toPosition.
referenceMove(rows, taskId, toPosition) ==
    LET task == CHOOSE t \in rows : t.id = taskId
        rest == {u \in rows : u.columnId = task.columnId /\ u.id # taskId}
        rank(u) == Cardinality({v \in rest : v.position < u.position}) + 1
    IN {IF u.id = taskId THEN [u EXCEPT !.position = toPosition]
        ELSE IF u \in rest
             THEN [u EXCEPT !.position = IF rank(u) >= toPosition THEN rank(u) + 1
                                                                  ELSE rank(u)]
             ELSE u : u \in rows}

\* C25: a successful moveTask within the task's own column, contiguous before
\* the move, to a position in 1..(number of its tasks) leaves the positions
\* of the two-step reference move; the task ends at toPosition.
C25_MoveWithinColumn ==
    \A t \in tasks, P \in Positions :
        (/\ Contiguous(tasksOf(t.columnId))
         /\ 1 <= P
         /\ P <= Cardinality(tasksOf(t.columnId)))
        => \A after \in moveResults(tasks, t.id, t.columnId, P) :
              /\ after = referenceMove(tasks, t.id, P)
              /\ \E m \in after : m.id = t.id /\ m.position = P

----------------------------------------------------------------------------
(* The value a move returns *)

\* return moved: the row that task.update (the placement) returned, of which
\* the id, the column and the position are the arguments of the call.
movedOf(call) ==
    [id |-> call.taskId, columnId |-> call.toColumnId, position |-> call.toPosition]

\* C26: when a successful moveTask returns, the task it returns has the
\* column and the position that the store holds for that task.
C26_ReturnedTaskIsStored ==
    \A p \in Procs :
        (InProgress(p) /\ calls[p].op = "moveTask" /\ calls[p].pc = "return")
        => /\ taskById(movedOf(calls[p]).id).columnId = movedOf(calls[p]).columnId
           /\ taskById(movedOf(calls[p]).id).position = movedOf(calls[p]).position

----------------------------------------------------------------------------
(* Between the store calls of one move: columns of up to three tasks, one  *)
(* moveTask at a time, run to its end                                      *)

MaxStepTasks == 3

StepTaskArgs == 1..MaxStepTasks
StepPositions == 1..MaxStepTasks

StepsCreateProject ==
    \E ctx \in BoardActors, name \in Texts :
        /\ AllIdle /\ Budget /\ Cardinality(projects) < MaxApiProjects
        /\ createProject(ctx, name)

StepsCreateTask ==
    \E ctx \in BoardActors, columnId \in MoveColumnArgs, title \in Texts :
        /\ AllIdle /\ Budget /\ Cardinality(tasks) < MaxStepTasks
        /\ createTask(ctx, columnId, title, 0)

StepsBegin ==
    \E ctx \in BoardActors, taskId \in StepTaskArgs, toColumnId \in MoveColumnArgs,
       toPosition \in StepPositions :
        /\ AllIdle /\ Budget
        /\ moveTaskBegin(FirstProc, ctx, taskId, toColumnId, toPosition)

StepsShift == moveTaskShift(FirstProc)
StepsPlace == moveTaskPlace(FirstProc)
StepsFind == moveTaskFind(FirstProc)
StepsRenumber == moveTaskRenumber(FirstProc)
StepsLog == moveTaskLog(FirstProc)
StepsReturn == moveTaskReturn(FirstProc)

NextMoveSteps ==
    \/ StepsCreateProject \/ StepsCreateTask \/ StepsBegin
    \/ StepsShift \/ StepsPlace \/ StepsFind \/ StepsRenumber
    \/ StepsLog \/ StepsReturn

SpecMoveSteps == Init /\ [][NextMoveSteps]_vars

\* The call began with every column contiguous and with toPosition within
\* 1..(number of the other tasks of the target column + 1).
BeganInOrder(call) ==
    /\ \A c \in columns : Contiguous({t \in call.before : t.columnId = c.id})
    /\ call.toPosition <=
          Cardinality({t \in call.before :
                         t.columnId = call.toColumnId /\ t.id # call.taskId}) + 1

\* C27: between two store calls of a moveTask that began with contiguous
\* columns and an in-range toPosition, two tasks of one column hold the same
\* position only when one of them is the task being moved.
C27_NoCollisionAmongOthers ==
    \A p \in Procs :
        (InProgress(p) /\ calls[p].op = "moveTask" /\ BeganInOrder(calls[p]))
        => \A t, u \in tasks :
              (t.id # u.id /\ t.columnId = u.columnId /\ t.position = u.position)
              => calls[p].taskId \in {t.id, u.id}

----------------------------------------------------------------------------
(* Two acceptInvite calls whose store calls interleave; every call runs to *)
(* its end                                                                 *)

InFlight == Cardinality({q \in Procs : InProgress(q)})

AcceptRaceCreateProject ==
    \E ctx \in Contexts, name \in Texts :
        /\ AllIdle /\ Budget /\ Cardinality(projects) < MaxApiProjects
        /\ createProject(ctx, name)

AcceptRaceInviteMember ==
    \E ctx \in Contexts, projectId \in ApiProjectArgs, email \in InviteEmails :
        /\ AllIdle /\ Budget /\ Cardinality(invitations) < MaxApiInvites
        /\ inviteMember(ctx, projectId, email)

AcceptRaceBegin ==
    \E p \in Procs, ctx \in Contexts, token \in ApiTokenArgs :
        /\ Len(activity) + InFlight < MaxLog
        /\ acceptInviteBegin(p, ctx, token)

AcceptRaceUpsert == \E p \in Procs : acceptInviteUpsert(p)
AcceptRaceUpdate == \E p \in Procs : acceptInviteUpdate(p)
AcceptRaceLog == \E p \in Procs : acceptInviteLog(p)

NextAcceptRace ==
    \/ AcceptRaceCreateProject \/ AcceptRaceInviteMember \/ AcceptRaceBegin
    \/ AcceptRaceUpsert \/ AcceptRaceUpdate \/ AcceptRaceLog

SpecAcceptRace == Init /\ [][NextAcceptRace]_vars

\* C28: under every interleaving of acceptInvite calls, a project has no
\* more INVITE_ACCEPTED log rows (one per call that succeeds) than accepted
\* invitations, and no more MEMBER rows than invitations.
C28_AcceptedOnce ==
    \A p \in projects :
        /\ Cardinality({n \in Rows("INVITE_ACCEPTED") : activity[n].projectId = p.id})
              <= Cardinality({i \in invitations :
                                i.projectId = p.id /\ i.status = "ACCEPTED"})
        /\ Cardinality({m \in members : m.projectId = p.id /\ m.projectRole = "MEMBER"})
              <= Cardinality({i \in invitations : i.projectId = p.id})

----------------------------------------------------------------------------
(* Two createTask calls whose store calls interleave; every call runs to   *)
(* its end                                                                 *)

CreateRaceCreateProject ==
    \E ctx \in BoardActors, name \in Texts :
        /\ AllIdle /\ Budget /\ Cardinality(projects) < MaxApiProjects
        /\ createProject(ctx, name)

CreateRaceBegin ==
    \E p \in Procs, ctx \in BoardActors, columnId \in MoveColumnArgs, title \in Texts :
        /\ Len(activity) + InFlight < MaxLog
        /\ Cardinality(tasks) + InFlight < MaxTasks
        /\ createTaskBegin(p, ctx, columnId, title, 0)

CreateRaceFindLast == \E p \in Procs : createTaskFindLast(p)
CreateRaceCreate == \E p \in Procs : createTaskCreate(p)
CreateRaceLog == \E p \in Procs : createTaskLog(p)

NextCreateRace ==
    \/ CreateRaceCreateProject \/ CreateRaceBegin \/ CreateRaceFindLast
    \/ CreateRaceCreate \/ CreateRaceLog

SpecCreateRace == Init /\ [][NextCreateRace]_vars

\* C29: under every interleaving of the store calls of createTask calls, the
\* tasks of a column are at distinct positions, which are exactly
\* 1..(number of its tasks).
C29_CreatedAtDistinctPositions ==
    /\ \A t, u \in tasks :
          (t.columnId = u.columnId /\ t.position = u.position) => t.id = u.id
    /\ \A c \in columns : PositionsOf(tasksOf(c.id)) = 1..Cardinality(tasksOf(c.id))

----------------------------------------------------------------------------
(* Effect of createTask *)

MaxOf(ps) == CHOOSE p \in ps : \A q \in ps : q <= p

\* C30: a successful createTask adds one task, in the named column, at the
\* column's highest position + 1 (at 1 in an empty column), with status TODO
\* and the actor as creator, and leaves every other task as it was.
C30_CreateTaskAtTail ==
    /\ [](\A ctx \in Contexts, c \in columns, title \in Texts :
            createTaskCheck(ctx, c.id, title, 0) = OK
            => LET new == newTask(ctx, c.id, 0) IN
               /\ new.columnId = c.id
               /\ new.position = IF tasksOf(c.id) = {} THEN 1
                                 ELSE MaxOf(PositionsOf(tasksOf(c.id))) + 1
               /\ new.status = "TODO"
               /\ new.creatorId = ctx.id
               /\ new.id \notin TaskIds)
    /\ [][(last'.op = "createTask" /\ last'.code = "OK")
            => /\ tasks \subseteq tasks'
               /\ \E c \in columns :
                     tasks' \ tasks = {newTask(buildContext(userById(last'.actor)), c.id, 0)}]_vars

C30_Witness ==
    /\ last.op = "createTask"
    /\ last.code = "OK"
    /\ \E t \in tasks :
          /\ t.id = Cardinality(tasks)
          /\ t.creatorId = last.actor
          /\ t.status = "TODO"
          /\ t.position = 2
          /\ Cardinality(tasksOf(t.columnId)) = 2

----------------------------------------------------------------------------
(* Effect of createColumn *)

\* C31: a successful createColumn(project, P) raises by one the position of
\* every column of the project at P or after, leaves the columns before P
\* and the columns of other projects as they were, stores the new column at
\* P and keeps the existing columns of the project in their relative order.
C31_CreateColumnShifts ==
    /\ [](\A ctx \in Contexts, p \in projects, title \in Texts, P \in ColumnPositions :
            createColumnCheck(ctx, p.id, title, P) = OK
            => LET after == insertColumn(columns, p.id, P)
                   now(c) == CHOOSE d \in after : d.id = c.id
               IN /\ Cardinality(after) = Cardinality(columns) + 1
                  /\ \A c \in columns :
                        /\ \E d \in after : d.id = c.id
                        /\ now(c).projectId = c.projectId
                        /\ now(c).position =
                              IF c.projectId = p.id /\ c.position >= P
                              THEN c.position + 1 ELSE c.position
                  /\ \E d \in after :
                        d.id \notin ColumnIds /\ d.projectId = p.id /\ d.position = P
                  /\ \A c, e \in columnsOf(p.id) :
                        c.position < e.position => now(c).position < now(e).position)
    /\ [][(last'.op = "createColumn" /\ last'.code = "OK")
            => \E p \in projects, P \in ColumnPositions :
                  columns' = insertColumn(columns, p.id, P)]_vars

C31_Witness ==
    /\ last.op = "createColumn"
    /\ last.code = "OK"
    /\ \E c, d \in columns :
          /\ c.projectId = d.projectId
          /\ c.id = DefaultColumnCount /\ c.position = DefaultColumnCount + 1
          /\ d.id > DefaultColumnCount /\ d.position = 2

----------------------------------------------------------------------------
(* The audit trail of calls that change nothing *)

tables ==
    <<users, projects, members, columns, tasks, labels, taskLabels, comments,
      invitations>>

\* C32: a row is appended to the activity log only by a call that changes
\* another table; a successful call that leaves every other table as it was
\* appends no row.
C32_LogOnlyOnChange ==
    [][Len(activity') > Len(activity) => tables' # tables]_vars

----------------------------------------------------------------------------
(* The owner's membership *)

\* C33: every project has exactly one membership row with role OWNER, the
\* row of its owner; no call removes a membership row or changes its role,
\* and only createProject adds a row with role OWNER, so that acceptInvite
\* leaves an owner who accepts an invitation to the own project OWNER.
C33_OneOwnerRow ==
    /\ [](\A p \in projects :
            /\ Cardinality(OwnerRows(p.id)) = 1
            /\ \A m \in OwnerRows(p.id) : m.userId = p.ownerId
            /\ Cardinality(membershipOf(p.id, p.ownerId)) = 1)
    /\ [][/\ members \subseteq members'
          /\ \A m \in members' \ members :
                m.projectRole = "OWNER" => last'.op = "createProject"
          /\ last'.op = "acceptInvite"
                => \A m \in members' \ members :
                      m.projectRole = "MEMBER" /\ m.userId = last'.actor]_vars

C33_Witness ==
    /\ last.op = "acceptInvite"
    /\ last.code = "OK"
    /\ \E p \in projects, i \in invitations :
          /\ p.ownerId = last.actor
          /\ ~IsAdmin(last.actor)
          /\ i.projectId = p.id
          /\ i.status = "ACCEPTED"
          /\ \A m \in membershipOf(p.id, last.actor) : m.projectRole = "OWNER"
          /\ Cardinality({m \in members : m.projectId = p.id}) = 1

----------------------------------------------------------------------------
(* Label names *)

DuplicateNames == {<<"T">>, <<" ", "T">>, <<"b">>, <<"b", " ">>}

\* C34: createLabel with a name that, trimmed, is the name of a label of the
\* same project ends with BadInput whenever the actor passes the guard; a
\* createLabel that fails leaves the labels and the activity log as they
\* were; the names of the labels of a project are distinct.
C34_DuplicateLabelBadInput ==
    /\ [](/\ \A ctx \in Contexts, p \in projects, name \in DuplicateNames :
                (/\ requireProjectOwnerOrAdmin(ctx, p.id) = OK
                 /\ \E l \in labels : l.projectId = p.id /\ l.name = trim(name))
                => createLabelCheck(ctx, p.id, name).code = "BAD_USER_INPUT"
          /\ \A l, k \in labels :
                (l.projectId = k.projectId /\ l.name = k.name) => l = k)
    /\ [][(last'.op = "createLabel" /\ last'.code # "OK")
            => (labels' = labels /\ activity' = activity)]_vars

----------------------------------------------------------------------------
(* The order of the checks of moveTask: projects of different owners, calls *)
(* run one at a time                                                        *)

ChecksCreateProject ==
    \E ctx \in Contexts, name \in Texts :
        Budget /\ Cardinality(projects) < MaxProjects /\ createProject(ctx, name)

ChecksCreateTask ==
    \E ctx \in Contexts, columnId \in ColumnArgs, title \in Texts :
        Budget /\ Cardinality(tasks) < MaxMoveTasks /\ createTask(ctx, columnId, title, 0)

ChecksMoveTask ==
    \E ctx \in Contexts, taskId \in MoveTaskArgs \cup {MaxMoveTasks + 1},
       toColumnId \in ColumnArgs \cup {DefaultColumnCount * MaxProjects + 1},
       toPosition \in EdgePositions :
        Budget /\ moveTask(ctx, taskId, toColumnId, toPosition)

NextMoveChecks == ChecksCreateProject \/ ChecksCreateTask \/ ChecksMoveTask

SpecMoveChecks == Init /\ [][NextMoveChecks]_vars

\* The first check of the claimed order that fails.
firstFailure(ctx, taskId, toColumnId, toPosition) ==
    IF taskId \notin TaskIds THEN <<"NOT_FOUND", "Task not found">>
    ELSE IF toColumnId \notin ColumnIds THEN <<"NOT_FOUND", "Column not found">>
    ELSE IF getProjectIdByTaskId(taskId) # columnById(toColumnId).projectId
         THEN <<"FORBIDDEN", "Cannot move task across projects">>
    ELSE IF ctx = NoUser THEN <<"UNAUTHENTICATED", "Authentication required">>
    ELSE IF ctx.role # "ADMIN" /\ membershipOf(getProjectIdByTaskId(taskId), ctx.id) = {}
         THEN <<"FORBIDDEN", "You are not a member of this project">>
    ELSE IF toPosition < 1 THEN <<"BAD_USER_INPUT", "Invalid toPosition">>
    ELSE <<"OK", "">>

\* C35: moveTask surfaces the first failure in the order task lookup, target
\* column lookup, project mismatch, authentication, membership in the
\* source project, toPosition; a moveTask that fails writes nothing.
C35_MoveCheckOrder ==
    /\ [](\A ctx \in Contexts, taskId \in MoveTaskArgs \cup {MaxMoveTasks + 1},
             toColumnId \in ColumnArgs \cup {DefaultColumnCount * MaxProjects + 1},
             toPosition \in EdgePositions :
            LET r == moveTaskCheck(ctx, taskId, toColumnId, toPosition)
            IN <<r.code, r.msg>> = firstFailure(ctx, taskId, toColumnId, toPosition))
    /\ [][(last'.op = "moveTask" /\ last'.code # "OK") => store' = store]_vars

\* A member of one project moves a task of a project of which the actor is
\* no member into the actor's own project: the mismatch is what is reported.
C35_Witness ==
    /\ last.op = "moveTask"
    /\ last.code = "FORBIDDEN"
    /\ last.msg = "Cannot move task across projects"
    /\ last.actor # 0
    /\ ~IsAdmin(last.actor)
    /\ \E t \in tasks : membershipOf(getProjectIdByTaskId(t.id), last.actor) = {}
    /\ \E p \in projects : p.ownerId = last.actor

----------------------------------------------------------------------------
(* How a user becomes a member *)

\* The invitations that a call has turned from PENDING to ACCEPTED.
Consumed ==
    {i \in invitations :
        /\ i.status = "PENDING"
        /\ \E j \in invitations' : j.id = i.id /\ j.status = "ACCEPTED"}

\* C36: a membership row of a user who is no ADMIN is added only by that
\* user's createProject, for the new project, or by that user's successful
\* acceptInvite of a PENDING invitation of the row's project whose email is
\* the user's own; every row acceptInvite adds is the calling actor's, and
\* a successful acceptInvite consumes the invitation whoever it was for.
C36_MembershipOnlyByOwnInvite ==
    [][/\ \A m \in members' \ members :
            ~IsAdmin(m.userId) =>
               /\ last'.actor = m.userId
               /\ last'.code = "OK"
               /\ \/ /\ last'.op = "createProject"
                     /\ m.projectId \notin ProjectIds
                     /\ \E p \in projects' : p.id = m.projectId /\ p.ownerId = m.userId
                  \/ /\ last'.op = "acceptInvite"
                     /\ \E i \in Consumed :
                           /\ i.projectId = m.projectId
                           /\ SameEmail(i.email, userById(m.userId).email)
       /\ (last'.op = "acceptInvite" /\ last'.code = "OK") =>
             /\ Cardinality(Consumed) = 1
             /\ \A m \in members' \ members : m.userId = last'.actor
             /\ \A i \in Consumed :
                   \E m \in members' :
                      m.projectId = i.projectId /\ m.userId = last'.actor
             /\ \A i \in invitations \ Consumed : i \in invitations'
       /\ (last'.op = "acceptInvite" /\ last'.code # "OK") =>
             members' = members /\ invitations' = invitations]_vars

\* The ADMIN has accepted an invitation addressed to a registered user: the
\* ADMIN is a MEMBER of the project, the invitation is ACCEPTED and the
\* invited user has no membership row.
C36_Witness ==
    /\ last.op = "acceptInvite"
    /\ last.code = "OK"
    /\ IsAdmin(last.actor)
    /\ \E i \in invitations, u \in users :
          /\ i.status = "ACCEPTED"
          /\ ~SameEmail(i.email, userById(last.actor).email)
          /\ SameEmail(i.email, u.email)
          /\ membershipOf(i.projectId, u.id) = {}
          /\ \E m \in membershipOf(i.projectId, last.actor) : m.projectRole = "MEMBER"
          /\ \A j \in invitations : j.projectId = i.projectId => j.id = i.id

----------------------------------------------------------------------------
(* Order and authorship of the tasks: one project, tasks in its three      *)
(* columns, the operations on a task, calls run one at a time              *)

MaxOrderLog == 7
MaxOrderEdits == 2

OrderBudget == Len(activity) < MaxOrderLog

\* The rows of the log that moves and edits have written: every creation
\* writes one row.
OrderEdits ==
    Len(activity) - Cardinality(projects) - Cardinality(tasks) - Cardinality(labels)

\* Moves and edits are explored on the filled board.
EditBudget ==
    /\ OrderBudget
    /\ OrderEdits < MaxOrderEdits
    /\ Cardinality(tasks) = MaxTasks
    /\ labels # {}

OrderTaskArgs == 1..MaxTasks

OrderCreateProject ==
    \E ctx \in BoardActors, name \in Texts :
        OrderBudget /\ Cardinality(projects) < MaxApiProjects /\ createProject(ctx, name)

OrderCreateTask ==
    \E ctx \in BoardActors, columnId \in 1..DefaultColumnCount :
        OrderBudget /\ Cardinality(tasks) < MaxTasks
                    /\ createTask(ctx, columnId, <<"T">>, 0)

OrderCreateLabel ==
    \E ctx \in BoardActors :
        OrderBudget /\ Cardinality(labels) < 1 /\ createLabel(ctx, 1, <<"T">>)

OrderMoveTask ==
    \E ctx \in BoardActors, taskId \in OrderTaskArgs,
       toColumnId \in 1..DefaultColumnCount, toPosition \in EdgePositions \cup {2} :
        EditBudget /\ moveTask(ctx, taskId, toColumnId, toPosition)

OrderUpdateTask ==
    \E ctx \in BoardActors, taskId \in OrderTaskArgs, input \in UpdateInputs :
        EditBudget /\ updateTask(ctx, taskId, input)

OrderAssignTask ==
    \E ctx \in BoardActors, taskId \in OrderTaskArgs, assigneeId \in AssigneeArgs :
        EditBudget /\ assignTask(ctx, taskId, assigneeId)

OrderCommentTask ==
    \E ctx \in BoardActors, taskId \in OrderTaskArgs :
        EditBudget /\ Cardinality(comments) < 1 /\ commentTask(ctx, taskId, <<"T">>)

OrderAddLabelToTask ==
    \E ctx \in BoardActors, taskId \in OrderTaskArgs :
        EditBudget /\ addLabelToTask(ctx, taskId, 1)

OrderRemoveLabelFromTask ==
    \E ctx \in BoardActors, taskId \in OrderTaskArgs :
        EditBudget /\ removeLabelFromTask(ctx, taskId, 1)

NextOrder ==
    \/ OrderCreateProject \/ OrderCreateTask \/ OrderCreateLabel \/ OrderMoveTask
    \/ OrderUpdateTask \/ OrderAssignTask \/ OrderCommentTask
    \/ OrderAddLabelToTask \/ OrderRemoveLabelFromTask

SpecOrder == Init /\ [][NextOrder]_vars

\* The operations on a task that are not meant to place it.
TaskEdits ==
    {"updateTask", "assignTask", "commentTask", "addLabelToTask", "removeLabelFromTask"}

\* The tasks whose column or position a step changes.
Displaced ==
    {t \in tasks : \E u \in tasks' :
        u.id = t.id /\ (u.columnId # t.columnId \/ u.position # t.position)}

\* C37: updateTask, assignTask, commentTask, addLabelToTask and
\* removeLabelFromTask leave the column and the position of every task as
\* they were; a moveTask changes the column of the moved task only, and
\* positions only in the column the moved task came from and the column it
\* went to; no call changes the creator of a task or removes a task.
C37_OrderAndAuthorFrame ==
    [][/\ \A t \in tasks : \E u \in tasks' : u.id = t.id /\ u.creatorId = t.creatorId
       /\ last'.op \in TaskEdits => Displaced = {}
       /\ (last'.op = "moveTask" /\ last'.code = "OK") =>
             LET id == activity'[Len(activity')].taskId
                 from == (CHOOSE t \in tasks : t.id = id).columnId
                 to == (CHOOSE u \in tasks' : u.id = id).columnId
             IN /\ \A t \in Displaced : t.columnId \in {from, to}
                /\ \A t \in tasks, u \in tasks' :
                      (u.id = t.id /\ u.columnId # t.columnId) => t.id = id
       /\ Displaced # {} => last'.op = "moveTask"]_vars

\* A task has been moved between two columns while the third column holds
\* another task, and a task has then been edited.
C37_Witness ==
    /\ last.op \in TaskEdits
    /\ last.code = "OK"
    /\ Len(activity) >= 2
    /\ activity[Len(activity) - 1].action = "TASK_MOVED"
    /\ Cardinality({t.columnId : t \in tasks}) = DefaultColumnCount
    /\ \E t \in tasks : t.id = activity[Len(activity) - 1].taskId /\ t.columnId # 1

====
